---- MODULE Spec2Model ----
(***************************************************************************)
(* Model of the NSE stock screener's indicator library and screening       *)
(* predicates (src/src/indicators.py, src/src/screener_*.py).              *)
(*                                                                         *)
(* Numbers.  Prices, volumes and thresholds are integers.  Every ratio the *)
(* code compares against a threshold is compared exactly, by cross         *)
(* multiplication; every value the code rounds is rounded half-to-even     *)
(* from the exact quotient.  The exponentially smoothed averages (Wilder   *)
(* smoothing in rsi and atr) are carried in fixed point, in units of       *)
(* 1/Scale.  A value pandas would hold as NaN/None is the value NaN.       *)
(***************************************************************************)
EXTENDS Integers, Sequences, FiniteSets, TLC

VARIABLES
    ohlcv,      \* the OHLCV table, grouped by symbol: symbol -> bars in trade_date order
    promoter,   \* the promoter-holdings table: a sequence of quarterly records
    call,       \* the last call made: the function's name and its arguments
    out         \* what that call returned

vars == <<ohlcv, promoter, call, out>>

----------------------------------------------------------------------------
(* Values *)

\* np.nan / None: a value that is missing
NaN == -2147483647

\* fixed-point unit of the smoothed averages
Scale == 1000

IsNaN(x) == x = NaN

\* a row of the ohlcv table (one trading day of one symbol)
Bar(h, l, c, v, dq, dp) ==
    [high |-> h, low |-> l, close |-> c, volume |-> v,
     delivery_qty |-> dq, delivery_pct |-> dp]

\* a row of the promoter-holdings table (one quarter of one symbol)
Rec(s, q, h, p) ==
    [symbol |-> s, quarter |-> q, promoter_holding_pct |-> h, pledge_pct |-> p,
     fii_holding_pct |-> 1200, dii_holding_pct |-> NaN]

\* a row of the table compute_all_indicators returns: the day's bar and the
\* indicator values at that day
IndicatorRow(bar, r, bw, a, st, o, m20, m50, m100, m200, x) ==
    [high |-> bar.high, low |-> bar.low, close |-> bar.close, volume |-> bar.volume,
     delivery_qty |-> bar.delivery_qty, delivery_pct |-> bar.delivery_pct,
     rsi |-> r, bb_bandwidth |-> bw, atr |-> a, supertrend |-> st, obv |-> o,
     dma_20 |-> m20, dma_50 |-> m50, dma_100 |-> m100, dma_200 |-> m200, cross |-> x]

\* a row of the ohlcv table of the SQLite cache: the day's bar of a symbol under
\* its key (symbol, trade_date); dates are day numbers
DatedBar(s, d, bar) ==
    [symbol |-> s, trade_date |-> d, high |-> bar.high, low |-> bar.low,
     close |-> bar.close, volume |-> bar.volume, delivery_qty |-> bar.delivery_qty,
     delivery_pct |-> bar.delivery_pct]

\* Series.fillna(0)
FillNa0(x) == IF IsNaN(x) THEN 0 ELSE x

Max2(a, b) == IF a >= b THEN a ELSE b
Min2(a, b) == IF a <= b THEN a ELSE b
Abs(a) == IF a < 0 THEN 0 - a ELSE a

\* n / d rounded up, for n >= 0 and d > 0
CeilDiv(n, d) == (n + d - 1) \div d

\* round(n / d) for d > 0: Python 3 rounds a tie to the even neighbour
RoundDiv(n, d) ==
    LET q == n \div d
        r == n - q * d
    IN  IF 2 * r < d THEN q
        ELSE IF 2 * r > d THEN q + 1
        ELSE IF q % 2 = 0 THEN q ELSE q + 1

----------------------------------------------------------------------------
(* Series helpers: the pandas operations the screens use *)

\* the column `f` of a group of bars
Col(group, f) == [i \in 1..Len(group) |-> group[i][f]]

\* series.iloc[-n:]
Tail_(s, n) == SubSeq(s, Max2(1, Len(s) - n + 1), Len(s))

\* series.iloc[:-n] for n >= 1
DropLast(s, n) == SubSeq(s, 1, Len(s) - n)

\* series.iloc[-k] for 1 <= k <= Len(s)
FromEnd(s, k) == s[Len(s) - k + 1]

\* Sums and extremes over s[lo..hi] are taken by halves, which keeps the depth of
\* the evaluation logarithmic in the length of the series.
RECURSIVE SumRange(_, _, _)
SumRange(s, lo, hi) ==
    IF lo > hi THEN 0
    ELSE IF lo = hi THEN s[lo]
    ELSE LET mid == (lo + hi) \div 2
         IN  SumRange(s, lo, mid) + SumRange(s, mid + 1, hi)

SeqSum(s) == SumRange(s, 1, Len(s))

RECURSIVE MaxRange(_, _, _)
MaxRange(s, lo, hi) ==
    IF lo = hi THEN s[lo]
    ELSE LET mid == (lo + hi) \div 2
         IN  Max2(MaxRange(s, lo, mid), MaxRange(s, mid + 1, hi))

RECURSIVE MinRange(_, _, _)
MinRange(s, lo, hi) ==
    IF lo = hi THEN s[lo]
    ELSE LET mid == (lo + hi) \div 2
         IN  Min2(MinRange(s, lo, mid), MinRange(s, mid + 1, hi))

\* series.max() / series.min() of a non-empty series without missing values
SeqMax(s) == MaxRange(s, 1, Len(s))
SeqMin(s) == MinRange(s, 1, Len(s))

RECURSIVE Concat(_, _)
\* the per-symbol row lists, appended in scan order
Concat(f, order) ==
    IF order = <<>> THEN <<>> ELSE f[Head(order)] \o Concat(f, Tail(order))

\* the values of column `f` of a result table
Column(rows, f) == [i \in 1..Len(rows) |-> rows[i][f]]

SymbolsOf(rows) == {rows[i].Symbol : i \in 1..Len(rows)}

\* DataFrame.sort_values(key, ascending): rows with a missing key go last
KeyBefore(a, b, asc) ==
    IF IsNaN(a) THEN FALSE
    ELSE IF IsNaN(b) THEN TRUE
    ELSE IF asc THEN a < b ELSE a > b

RECURSIVE InsertRow(_, _, _, _)
InsertRow(sorted, row, key, asc) ==
    IF sorted = <<>> THEN <<row>>
    ELSE IF KeyBefore(row[key], Head(sorted)[key], asc)
         THEN <<row>> \o sorted
         ELSE <<Head(sorted)>> \o InsertRow(Tail(sorted), row, key, asc)

\* mutant of SortValues: the rows stay as they were appended
SortValuesAsAppended(rows, key, asc) == rows

RECURSIVE SortValues(_, _, _)
SortValues(rows, key, asc) ==
    IF rows = <<>> THEN <<>>
    ELSE InsertRow(SortValues(SubSeq(rows, 1, Len(rows) - 1), key, asc),
                   rows[Len(rows)], key, asc)

----------------------------------------------------------------------------
(* Indicator library: src/src/indicators.py *)

\* NaN-aware comparisons: a comparison with a missing value is False
Lt(a, b) == ~IsNaN(a) /\ ~IsNaN(b) /\ a < b
Gt(a, b) == ~IsNaN(a) /\ ~IsNaN(b) /\ a > b
Le(a, b) == ~IsNaN(a) /\ ~IsNaN(b) /\ a <= b
Ge(a, b) == ~IsNaN(a) /\ ~IsNaN(b) /\ a >= b
Eq(a, b) == ~IsNaN(a) /\ ~IsNaN(b) /\ a = b

\* mutant of RollingSum: min_periods=1, the first positions hold the sum so far
RollingSumFromFirst(series, period, i) ==
    IF i < period THEN SumRange(series, 1, i) ELSE SumRange(series, i - period + 1, i)

\* series.rolling(window=period, min_periods=period).sum() at position i (1-based)
RollingSum(series, period, i) ==
    IF i < period THEN NaN ELSE SumRange(series, i - period + 1, i)

\* mutant of sma: before `period` values exist, the mean of those there are
smaOfAvailable(series, period) ==
    [i \in 1..Len(series) |->
        IF i < period THEN (SumRange(series, 1, i) * period) \div i
        ELSE SumRange(series, i - period + 1, i)]

\* sma(series, period), each value carried as mean * period (the window's sum):
\* the mean itself is sum / period and is missing at the first period-1 positions
sma(series, period) ==
    [i \in 1..Len(series) |-> RollingSum(series, period, i)]

\* one step of series.ewm(alpha=1/period, adjust=False).mean(), in units of 1/Scale:
\* y[i] = ((period-1) * y[i-1] + x[i]) / period.  The quotient is rounded up, so
\* that a positive average never decays to zero.
EwmStep(prev, x, period) == CeilDiv((period - 1) * prev + x * Scale, period)

\* the running average carried from position st.i to position i; like the sums,
\* the steps are taken by halves
RECURSIVE EwmAdvance(_, _, _, _)
EwmAdvance(x, period, st, i) ==
    IF st.i >= i THEN st
    ELSE IF st.i + 1 = i THEN [i |-> i, y |-> EwmStep(st.y, x[i], period)]
    ELSE EwmAdvance(x, period, EwmAdvance(x, period, st, (st.i + i) \div 2), i)

\* series.ewm(alpha=1/period, adjust=False).mean() at position i: y[1] = x[1]
Ewm(x, period, i) == EwmAdvance(x, period, [i |-> 1, y |-> x[1] * Scale], i).y

\* ... with min_periods=period: missing until `period` observations are seen
Wilder(x, period, i) == IF i < period THEN NaN ELSE Ewm(x, period, i)

\* gain = delta.where(delta > 0, 0.0); loss = (-delta).where(delta < 0, 0.0)
Gain(close) ==
    [i \in 1..Len(close) |->
        IF i > 1 /\ close[i] - close[i - 1] > 0 THEN close[i] - close[i - 1] ELSE 0]
Loss(close) ==
    [i \in 1..Len(close) |->
        IF i > 1 /\ close[i] - close[i - 1] < 0 THEN close[i - 1] - close[i] ELSE 0]

\* mutant of RsiAt: a zero average loss gives 100
RsiAtForced100(close, period, i) ==
    LET avg_gain == Wilder(Gain(close), period, i)
        avg_loss == Wilder(Loss(close), period, i)
    IN  IF IsNaN(avg_gain) \/ IsNaN(avg_loss) THEN NaN
        ELSE IF avg_loss = 0 THEN 1000
        ELSE RoundDiv(1000 * avg_gain, avg_gain + avg_loss)

\* rsi(close, period) at position i, in tenths of a point (the value rounded to one
\* decimal): 100 - 100 / (1 + avg_gain / avg_loss) = 100 * avg_gain / (avg_gain + avg_loss);
\* missing while the averages are, and where avg_loss is zero (replace(0, nan))
RsiAt(close, period, i) ==
    LET avg_gain == Wilder(Gain(close), period, i)
        avg_loss == Wilder(Loss(close), period, i)
    IN  IF IsNaN(avg_gain) \/ IsNaN(avg_loss) \/ avg_loss = 0 THEN NaN
        ELSE RoundDiv(1000 * avg_gain, avg_gain + avg_loss)

\* rsi(close, period) at position i compared with a bound, before any rounding:
\* value < bound and value > bound; both are false where the value is missing
RsiLt(close, period, i, bound) ==
    LET avg_gain == Wilder(Gain(close), period, i)
        avg_loss == Wilder(Loss(close), period, i)
    IN  /\ ~IsNaN(avg_gain) /\ ~IsNaN(avg_loss) /\ avg_loss # 0
        /\ 100 * avg_gain < bound * (avg_gain + avg_loss)
RsiGt(close, period, i, bound) ==
    LET avg_gain == Wilder(Gain(close), period, i)
        avg_loss == Wilder(Loss(close), period, i)
    IN  /\ ~IsNaN(avg_gain) /\ ~IsNaN(avg_loss) /\ avg_loss # 0
        /\ 100 * avg_gain > bound * (avg_gain + avg_loss)

rsi(close, period) == [i \in 1..Len(close) |-> RsiAt(close, period, i)]

\* true range: max(high - low, |high - prev_close|, |low - prev_close|); at the
\* first bar prev_close is missing and max(axis=1) skips the missing terms
TrueRange(high, low, close) ==
    [i \in 1..Len(close) |->
        IF i = 1 THEN high[1] - low[1]
        ELSE Max2(high[i] - low[i],
                  Max2(Abs(high[i] - close[i - 1]), Abs(low[i] - close[i - 1])))]

\* atr(high, low, close, period) at position i, in units of 1/Scale
AtrAt(high, low, close, period, i) == Wilder(TrueRange(high, low, close), period, i)

\* hl2 +/- multiplier * atr, in units of 1/(2*Scale), from the day's atr
RawUpper(h, l, a, multiplier) ==
    IF IsNaN(a) THEN NaN ELSE (h + l) * Scale + 2 * multiplier * a
RawLower(h, l, a, multiplier) ==
    IF IsNaN(a) THEN NaN ELSE (h + l) * Scale - 2 * multiplier * a

\* a close in the bands' unit
InBandUnit(c) == 2 * Scale * c

\* supertrend's two loops, run together.  A pass state holds, for position i, the
\* running average of the true range (atr once `period` days are seen),
\* final_upper[i], final_lower[i], st[i] and the direction values up to i.
SupertrendStart(high, low, close, period, multiplier) ==
    LET e == TrueRange(high, low, close)[1] * Scale
        a == IF 1 < period THEN NaN ELSE e
    IN  [i |-> 1, ewm |-> e,
         fu |-> RawUpper(high[1], low[1], a, multiplier),
         fl |-> RawLower(high[1], low[1], a, multiplier),
         st |-> NaN,
         direction |-> <<1>>]

\* the body of both loops for position p.i + 1
SupertrendStep(high, low, close, period, multiplier, p) ==
    LET i  == p.i + 1
        e  == EwmStep(p.ewm, TrueRange(high, low, close)[i], period)
        a  == IF i < period THEN NaN ELSE e
        ub == RawUpper(high[i], low[i], a, multiplier)
        lb == RawLower(high[i], low[i], a, multiplier)
        pc == InBandUnit(close[i - 1])
        c  == InBandUnit(close[i])
        fu == IF Lt(ub, p.fu) \/ Gt(pc, p.fu) THEN ub ELSE p.fu
        fl == IF Gt(lb, p.fl) \/ Lt(pc, p.fl) THEN lb ELSE p.fl
        onUpper == IF Eq(p.st, p.fu) THEN Le(c, fu) ELSE ~Ge(c, fl)
    IN  [i |-> i, ewm |-> e, fu |-> fu, fl |-> fl,
         st |-> IF onUpper THEN fu ELSE fl,
         direction |-> Append(p.direction, IF onUpper THEN -1 ELSE 1)]

\* the pass carried from position p.i to position i, by halves
RECURSIVE SupertrendAdvance(_, _, _, _, _, _, _)
SupertrendAdvance(high, low, close, period, multiplier, p, i) ==
    IF p.i >= i THEN p
    ELSE IF p.i + 1 = i THEN SupertrendStep(high, low, close, period, multiplier, p)
    ELSE SupertrendAdvance(high, low, close, period, multiplier,
             SupertrendAdvance(high, low, close, period, multiplier, p, (p.i + i) \div 2), i)

SupertrendPass(high, low, close, period, multiplier, i) ==
    SupertrendAdvance(high, low, close, period, multiplier,
                      SupertrendStart(high, low, close, period, multiplier), i)

\* supertrend(high, low, close, period, multiplier): direction.map({1: "BUY", -1: "SELL"})
supertrend(high, low, close, period, multiplier) ==
    LET d == SupertrendPass(high, low, close, period, multiplier, Len(close)).direction
    IN  [i \in 1..Len(close) |-> IF d[i] = 1 THEN "BUY" ELSE "SELL"]

\* mutant of ObvAt: the first bar's volume is the starting value
ObvAtFromFirstVolume(close, volume, i) ==
    SumRange([k \in 1..Len(close) |->
                 IF k = 1 THEN volume[1]
                 ELSE IF close[k] > close[k - 1] THEN volume[k]
                 ELSE IF close[k] < close[k - 1] THEN 0 - volume[k]
                 ELSE 0],
             1, i)

\* obv(close, volume): (volume * direction).cumsum() at position i
ObvAt(close, volume, i) ==
    SumRange([k \in 1..Len(close) |->
                 IF k = 1 THEN 0
                 ELSE IF close[k] > close[k - 1] THEN volume[k]
                 ELSE IF close[k] < close[k - 1] THEN 0 - volume[k]
                 ELSE 0],
             1, i)

obv(close, volume) == [i \in 1..Len(close) |-> ObvAt(close, volume, i)]

\* the windows of the two moving averages golden_death_cross compares
ShortMA == 50
LongMA == 200

\* dma50 - dma200 at position i, times ShortMA * LongMA; missing where either is
DmaDiff(close, i) ==
    LET s50  == RollingSum(close, ShortMA, i)
        s200 == RollingSum(close, LongMA, i)
    IN  IF i < 1 \/ IsNaN(s50) \/ IsNaN(s200) THEN NaN
        ELSE LongMA * s50 - ShortMA * s200

\* mutant of CrossScan: the most recent qualifying transition, not the first
CrossScanLatestFirst(close, i) ==
    LET golden(j) == Le(DmaDiff(close, j - 1), 0) /\ Gt(DmaDiff(close, j), 0)
        death(j) == Ge(DmaDiff(close, j - 1), 0) /\ Lt(DmaDiff(close, j), 0)
        hits == {j \in i..Len(close) : golden(j) \/ death(j)}
    IN  IF hits = {} THEN "NONE"
        ELSE IF golden(CHOOSE j \in hits : \A k \in hits : k <= j) THEN "GOLDEN"
        ELSE "DEATH"

\* the loop of golden_death_cross from position i to the last bar
RECURSIVE CrossScan(_, _)
CrossScan(close, i) ==
    IF i > Len(close) THEN "NONE"
    ELSE LET prev_diff == DmaDiff(close, i - 1)
             curr_diff == DmaDiff(close, i)
         IN  IF Le(prev_diff, 0) /\ Gt(curr_diff, 0) THEN "GOLDEN"
             ELSE IF Ge(prev_diff, 0) /\ Lt(curr_diff, 0) THEN "DEATH"
             ELSE CrossScan(close, i + 1)

\* golden_death_cross(close, lookback): "GOLDEN", "DEATH" or "NONE" (None)
golden_death_cross(close, lookback) ==
    IF IsNaN(RollingSum(close, ShortMA, Len(close)))
       \/ IsNaN(RollingSum(close, LongMA, Len(close)))
    THEN "NONE"
    ELSE LET recent == Min2(lookback, Len(close) - 1)
         IN  CrossScan(close, Len(close) - recent + 1)

\* floor of the square root of n, 0 <= n < 2^31
RECURSIVE ISqrtIn(_, _, _)
ISqrtIn(n, lo, hi) ==
    IF lo = hi THEN lo
    ELSE LET mid == (lo + hi + 1) \div 2
         IN  IF mid * mid <= n THEN ISqrtIn(n, mid, hi) ELSE ISqrtIn(n, lo, mid - 1)

ISqrt(n) == ISqrtIn(n, 0, 46340)

\* bollinger_bands(close, period, std_dev): the bandwidth
\* ((upper - lower) / middle) * 100 at position i, in hundredths (the value rounded
\* to two decimals).  With S the window's sum, Q its sum of squares and
\* D = period*Q - S*S, the sample standard deviation is sqrt(D / (period*(period-1)))
\* and the bandwidth 200 * std_dev * period * sqrt(D / (period*(period-1))) / S.
\* The square roots are taken to one and two decimals.  Missing before `period`
\* bars and where the middle band is zero.
BandwidthAt(close, period, std_dev, i) ==
    IF i < period THEN NaN
    ELSE LET S == SumRange(close, i - period + 1, i)
             Q == SumRange([k \in 1..Len(close) |-> close[k] * close[k]], i - period + 1, i)
             D == period * Q - S * S
             rootD == ISqrt(100 * D)
             rootN == ISqrt(10000 * period * (period - 1))
             k == RoundDiv(2000000 * std_dev * period, rootN)
         IN  IF S = 0 THEN NaN ELSE RoundDiv(k * rootD, 10 * S)

\* moving_averages(close): the four averages, each carried as the window's sum
\* (mean * period)
moving_averages(close) ==
    <<sma(close, 20), sma(close, ShortMA), sma(close, 100), sma(close, LongMA)>>

\* compute_all_indicators(df) on a single symbol's bars: a copy of the table with
\* the indicator columns added, at the functions' default parameters (rsi 14,
\* bollinger 20 / 2.0, atr 14, supertrend 10 / 3.0, cross lookback 10).  rsi is in
\* tenths, bb_bandwidth in hundredths, atr in units of 1/Scale, the averages are
\* window sums.  The MACD columns and the Bollinger band levels, which no screen
\* and no other column reads, are not carried.
compute_all_indicators(df) ==
    LET close == Col(df, "close")
        high == Col(df, "high")
        low == Col(df, "low")
        vol == [i \in 1..Len(df) |-> FillNa0(df[i].volume)]
        r == rsi(close, 14)
        st == supertrend(high, low, close, 10, 3)
        o == obv(close, vol)
        mas == moving_averages(close)
        x == golden_death_cross(close, 10)
    IN  [i \in 1..Len(df) |->
            IndicatorRow(df[i], r[i], BandwidthAt(close, 20, 2, i),
                         AtrAt(high, low, close, 14, i), st[i], o[i],
                         mas[1][i], mas[2][i], mas[3][i], mas[4][i], x)]

----------------------------------------------------------------------------
(* Screens on the OHLCV table.  Each screen scans the groups of
   ohlcv.groupby("symbol") in key order; a group is the symbol's bars sorted
   by trade_date.  XxxRows is one iteration of the loop: the rows it appends
   to `results` for that symbol. *)

\* the symbols of the table in groupby order (sorted keys)
SymbolOrder == <<"A", "B">>
Symbols == {SymbolOrder[i] : i \in 1..Len(SymbolOrder)}

\* mutant of TooShort: the minimum taken one bar lower
TooShortByTwo(group, minimum) == Len(group) < minimum - 1

\* len(group) < minimum: the group is skipped (`continue`)
TooShort(group, minimum) == Len(group) < minimum

\* mutant of Scan: the loop ends at the first symbol that is skipped (`break` where
\* the code has `continue`)
ScanStopAtSkip(rowsOf) ==
    LET skipped == {i \in 1..Len(SymbolOrder) : rowsOf[SymbolOrder[i]] = <<>>}
        last == IF skipped = {} THEN Len(SymbolOrder)
                ELSE (CHOOSE i \in skipped : \A j \in skipped : i <= j) - 1
    IN  Concat(rowsOf, SubSeq(SymbolOrder, 1, last))

\* the scan: results of every iteration appended in order
Scan(rowsOf) == Concat(rowsOf, SymbolOrder)

\* ((a - b) / b) * 100 rounded to one decimal, in tenths, for b > 0
PctChange10(a, b) == RoundDiv(1000 * (a - b), b)

(* ---- src/src/screener_price.py ---- *)

MinBarsBigDrops == 20
RsiPeriod == 14

\* mutant of DropAtLeast: a strict comparison
DropAtLeastStrict(high_6m, current_price, threshold_pct) ==
    (high_6m - current_price) * 100 > threshold_pct * high_6m

\* drop_pct >= threshold_pct, with drop_pct = ((high_6m - current_price) / high_6m) * 100
DropAtLeast(high_6m, current_price, threshold_pct) ==
    (high_6m - current_price) * 100 >= threshold_pct * high_6m

BigDropsRows(symbol, group, threshold_pct) ==
    IF TooShort(group, MinBarsBigDrops) THEN <<>>
    ELSE LET high_6m == SeqMax(Col(group, "high"))
             current_price == group[Len(group)].close
         IN  IF high_6m <= 0 THEN <<>>
             ELSE IF DropAtLeast(high_6m, current_price, threshold_pct)
             THEN << [Symbol |-> symbol,
                      CurrentPrice |-> current_price,
                      High6M |-> high_6m,
                      DropPct |-> RoundDiv(1000 * (high_6m - current_price), high_6m),
                      RSI |-> RsiAt(Col(group, "close"), RsiPeriod, Len(group))] >>
             ELSE <<>>

\* screen_big_drops(ohlcv, threshold_pct); Drop % and RSI are in tenths
screen_big_drops(data, threshold_pct) ==
    SortValues(Scan([s \in Symbols |-> BigDropsRows(s, data[s], threshold_pct)]), "DropPct", FALSE)

MaxWindow == 60
RangeSlack == 5
BBPeriod == 20
BBStdDev == 2

\* width_pct <= range_pct, with width_pct = ((range_high - range_low) / midpoint) * 100
\* and midpoint = (range_high + range_low) / 2
WidthAtMost(range_high, range_low, range_pct) ==
    200 * (range_high - range_low) <= range_pct * (range_high + range_low)

\* the row appended when `window` passes the width test
RangeRow(symbol, close, window) ==
    LET recent == Tail_(close, window)
        range_high == SeqMax(recent)
        range_low == SeqMin(recent)
    IN  [Symbol |-> symbol,
         RangeLow |-> range_low,
         RangeHigh |-> range_high,
         Midpoint2 |-> range_high + range_low,
         RangeWidthPct |-> RoundDiv(2000 * (range_high - range_low), range_high + range_low),
         BBBandwidth |-> BandwidthAt(close, BBPeriod, BBStdDev, Len(close)),
         DaysInRange |-> window]

\* mutant of WindowLoop: no break, every window that passes appends a row
RECURSIVE WindowLoopNoBreak(_, _, _, _, _)
WindowLoopNoBreak(symbol, close, window, min_days, range_pct) ==
    IF window < min_days THEN <<>>
    ELSE LET recent == Tail_(close, window)
             range_high == SeqMax(recent)
             range_low == SeqMin(recent)
             rest == WindowLoopNoBreak(symbol, close, window - 1, min_days, range_pct)
         IN  IF range_high + range_low > 0 /\ WidthAtMost(range_high, range_low, range_pct)
             THEN <<RangeRow(symbol, close, window)>> \o rest
             ELSE rest

\* mutant of WindowLoop: the smallest window that passes, not the largest
WindowLoopShortestFirst(symbol, close, window, min_days, range_pct) ==
    LET passes == {w \in min_days..window :
                     /\ SeqMax(Tail_(close, w)) + SeqMin(Tail_(close, w)) > 0
                     /\ WidthAtMost(SeqMax(Tail_(close, w)), SeqMin(Tail_(close, w)),
                                    range_pct)}
    IN  IF passes = {} THEN <<>>
        ELSE <<RangeRow(symbol, close, CHOOSE w \in passes : \A v \in passes : w <= v)>>

\* mutant of WindowLoop: only the largest window is tried
WindowLoopLargestOnly(symbol, close, window, min_days, range_pct) ==
    LET recent == Tail_(close, window)
        range_high == SeqMax(recent)
        range_low == SeqMin(recent)
    IN  IF window >= min_days /\ range_high + range_low > 0
           /\ WidthAtMost(range_high, range_low, range_pct)
        THEN <<RangeRow(symbol, close, window)>>
        ELSE <<>>

\* the window loop from `window` down to min_days; it breaks at the first hit
RECURSIVE WindowLoop(_, _, _, _, _)
WindowLoop(symbol, close, window, min_days, range_pct) ==
    IF window < min_days THEN <<>>
    ELSE LET recent == Tail_(close, window)
             range_high == SeqMax(recent)
             range_low == SeqMin(recent)
         IN  IF range_high + range_low <= 0
             THEN WindowLoop(symbol, close, window - 1, min_days, range_pct)
             ELSE IF WidthAtMost(range_high, range_low, range_pct)
             THEN <<RangeRow(symbol, close, window)>>
             ELSE WindowLoop(symbol, close, window - 1, min_days, range_pct)

RangeBoundRows(symbol, group, range_pct, min_days) ==
    IF TooShort(group, min_days + RangeSlack) THEN <<>>
    ELSE WindowLoop(symbol, Col(group, "close"), Min2(Len(group), MaxWindow),
                    min_days, range_pct)

\* screen_range_bound(ohlcv, range_pct, min_days); Midpoint2 is twice the midpoint,
\* Range Width % is in tenths, BB Bandwidth in hundredths
screen_range_bound(data, range_pct, min_days) ==
    SortValues(Scan([s \in Symbols |-> RangeBoundRows(s, data[s], range_pct, min_days)]),
               "BBBandwidth", TRUE)

(* ---- src/src/screener_volume.py ---- *)

MinBarsVolume == 30

\* mutant of AllAbove: the level is the mean itself, without the threshold
AllAboveMean(recent_vols, before_sum, before_n, vol_threshold_pct) ==
    \A i \in 1..Len(recent_vols) : recent_vols[i] * before_n >= before_sum

\* mutant of AllAbove: one recent day at the level is enough
AnyAbove(recent_vols, before_sum, before_n, vol_threshold_pct) ==
    \E i \in 1..Len(recent_vols) :
        recent_vols[i] * before_n * 100 >= before_sum * (100 + vol_threshold_pct)

\* all(v >= avg_vol * vol_multiplier for v in recent_vols), with
\* avg_vol = before_sum / before_n and vol_multiplier = 1 + vol_threshold_pct / 100
AllAbove(recent_vols, before_sum, before_n, vol_threshold_pct) ==
    \A i \in 1..Len(recent_vols) :
        recent_vols[i] * before_n * 100 >= before_sum * (100 + vol_threshold_pct)

VolumeSpikesRows(symbol, group, vol_threshold_pct, consecutive_days) ==
    IF TooShort(group, MinBarsVolume) THEN <<>>
    ELSE LET volume == [i \in 1..Len(group) |-> FillNa0(group[i].volume)]
             before == DropLast(volume, consecutive_days)
             recent_vols == Tail_(volume, consecutive_days)
             before_n == Len(before)
             before_sum == SeqSum(before)
             recent_sum == SeqSum(recent_vols)
             delivery_pct == [i \in 1..Len(group) |-> FillNa0(group[i].delivery_pct)]
             deliv_before == SeqSum(DropLast(delivery_pct, consecutive_days))
             deliv_recent == SeqSum(Tail_(delivery_pct, consecutive_days))
             price_start == FromEnd(Col(group, "close"), consecutive_days + 1)
             price_end == group[Len(group)].close
         IN  IF before_sum <= 0 THEN <<>>
             ELSE IF \E i \in 1..Len(recent_vols) : recent_vols[i] <= 0 THEN <<>>
             ELSE IF ~AllAbove(recent_vols, before_sum, before_n, vol_threshold_pct) THEN <<>>
             ELSE << [Symbol |-> symbol,
                      CurrentPrice |-> price_end,
                      AvgVolume |-> before_sum \div before_n,
                      LastAvgVol |-> recent_sum \div consecutive_days,
                      VolRatio |-> RoundDiv(10 * recent_sum * before_n,
                                            consecutive_days * before_sum),
                      AvgDeliveryPct |-> RoundDiv(10 * deliv_before, before_n),
                      RecentDeliveryPct |-> RoundDiv(10 * deliv_recent, consecutive_days),
                      DeliveryAboveAvg |-> IF deliv_recent * before_n > deliv_before * consecutive_days
                                           THEN "Yes" ELSE "No",
                      PriceChangePct |-> IF price_start > 0
                                         THEN PctChange10(price_end, price_start) ELSE 0] >>

\* screen_volume_spikes(ohlcv, vol_threshold_pct, consecutive_days); the ratio and
\* the percentages are in tenths
screen_volume_spikes(data, vol_threshold_pct, consecutive_days) ==
    SortValues(Scan([s \in Symbols |-> VolumeSpikesRows(s, data[s], vol_threshold_pct,
                                                consecutive_days)]),
               "VolRatio", FALSE)

(* ---- src/src/screener_momentum.py ---- *)

MinBarsMomentum == 60
NearHighPct == 10
RsiLow == 55
RsiHigh == 75
StPeriod == 10
StMultiplier == 3

\* value * 100 / period rounded: a moving average rounded to two decimals, in hundredths
Dma100(sum, period) == IF IsNaN(sum) THEN NaN ELSE RoundDiv(100 * sum, period)

MomentumRows(symbol, group) ==
    IF TooShort(group, MinBarsMomentum) THEN <<>>
    ELSE LET n == Len(group)
             close == Col(group, "close")
             high == Col(group, "high")
             low == Col(group, "low")
             current_price == close[n]
             high_6m == SeqMax(high)
             s50 == RollingSum(close, ShortMA, n)
             s200 == RollingSum(close, LongMA, n)
             above_50 == ~IsNaN(s50) /\ current_price * ShortMA > s50
             above_200 == ~IsNaN(s200) /\ current_price * LongMA > s200
             last_rsi == RsiAt(close, RsiPeriod, n)
             last_st == supertrend(high, low, close, StPeriod, StMultiplier)[n]
         IN  IF current_price <= 0 THEN <<>>
             \* dist_from_high > 10, dist_from_high = ((high_6m - current_price) / high_6m) * 100
             ELSE IF (high_6m - current_price) * 100 > NearHighPct * high_6m THEN <<>>
             ELSE IF ~(above_50 /\ above_200) THEN <<>>
             ELSE IF \/ IsNaN(last_rsi)
                     \/ RsiLt(close, RsiPeriod, n, RsiLow)
                     \/ RsiGt(close, RsiPeriod, n, RsiHigh) THEN <<>>
             ELSE IF last_st # "BUY" THEN <<>>
             ELSE << [Symbol |-> symbol,
                      Price |-> current_price,
                      High6M |-> high_6m,
                      DistFromHighPct |-> RoundDiv(1000 * (high_6m - current_price), high_6m),
                      RSI |-> last_rsi,
                      Supertrend |-> last_st,
                      DMA50 |-> Dma100(s50, ShortMA),
                      DMA200 |-> Dma100(s200, LongMA)] >>

\* screen_momentum_leaders(ohlcv)
screen_momentum_leaders(data) ==
    SortValues(Scan([s \in Symbols |-> MomentumRows(s, data[s])]), "DistFromHighPct", TRUE)

(* ---- src/src/screener_smart_money.py ---- *)

MinBarsDelivery == 25
DeliveryWindow == 20

\* mutant of DeliveryBreakoutRows: a missing delivery quantity is taken to be the
\* whole volume of the day
DeliveryBreakoutRowsVolumeFallback(symbol, group, multiplier10) ==
    IF TooShort(group, MinBarsDelivery) THEN <<>>
    ELSE LET n == Len(group)
             deliv == [i \in 1..n |-> IF IsNaN(group[i].delivery_qty)
                                      THEN FillNa0(group[i].volume)
                                      ELSE group[i].delivery_qty]
             window_sum == SumRange(deliv, n - DeliveryWindow, n - 1)
             recent_delivery == deliv[n]
             current_price == group[n].close
             prev_price == group[n - 1].close
         IN  IF SeqSum(deliv) = 0 THEN <<>>
             ELSE IF window_sum <= 0 THEN <<>>
             ELSE IF recent_delivery * DeliveryWindow * 10 >= multiplier10 * window_sum
             THEN << [Symbol |-> symbol,
                      Price |-> current_price,
                      AvgDeliveryQty |-> window_sum \div DeliveryWindow,
                      RecentDeliveryQty |-> recent_delivery,
                      DeliveryRatio |-> RoundDiv(10 * recent_delivery * DeliveryWindow, window_sum),
                      PriceChangePct |-> IF prev_price > 0
                                         THEN PctChange10(current_price, prev_price) ELSE 0] >>
             ELSE <<>>

\* mutant of DeliveryBreakoutRows: the average is taken over the last 20 bars, the
\* last bar included
DeliveryBreakoutRowsWithLast(symbol, group, multiplier10) ==
    IF TooShort(group, MinBarsDelivery) THEN <<>>
    ELSE LET n == Len(group)
             deliv == [i \in 1..n |-> FillNa0(group[i].delivery_qty)]
             window_sum == SumRange(deliv, n - DeliveryWindow + 1, n)
             recent_delivery == deliv[n]
             current_price == group[n].close
             prev_price == group[n - 1].close
         IN  IF SeqSum(deliv) = 0 THEN <<>>
             ELSE IF window_sum <= 0 THEN <<>>
             ELSE IF recent_delivery * DeliveryWindow * 10 >= multiplier10 * window_sum
             THEN << [Symbol |-> symbol,
                      Price |-> current_price,
                      AvgDeliveryQty |-> window_sum \div DeliveryWindow,
                      RecentDeliveryQty |-> recent_delivery,
                      DeliveryRatio |-> RoundDiv(10 * recent_delivery * DeliveryWindow, window_sum),
                      PriceChangePct |-> IF prev_price > 0
                                         THEN PctChange10(current_price, prev_price) ELSE 0] >>
             ELSE <<>>

\* `multiplier10` is the multiplier in tenths (1.5 -> 15)
DeliveryBreakoutRows(symbol, group, multiplier10) ==
    IF TooShort(group, MinBarsDelivery) THEN <<>>
    ELSE LET n == Len(group)
             deliv == [i \in 1..n |-> FillNa0(group[i].delivery_qty)]
             \* deliv.iloc[-21:-1]
             window_sum == SumRange(deliv, n - DeliveryWindow, n - 1)
             recent_delivery == deliv[n]
             current_price == group[n].close
             prev_price == group[n - 1].close
         IN  IF SeqSum(deliv) = 0 THEN <<>>
             ELSE IF window_sum <= 0 THEN <<>>
             \* ratio >= multiplier, ratio = recent_delivery / avg_delivery
             ELSE IF recent_delivery * DeliveryWindow * 10 >= multiplier10 * window_sum
             THEN << [Symbol |-> symbol,
                      Price |-> current_price,
                      AvgDeliveryQty |-> window_sum \div DeliveryWindow,
                      RecentDeliveryQty |-> recent_delivery,
                      DeliveryRatio |-> RoundDiv(10 * recent_delivery * DeliveryWindow, window_sum),
                      PriceChangePct |-> IF prev_price > 0
                                         THEN PctChange10(current_price, prev_price) ELSE 0] >>
             ELSE <<>>

\* screen_delivery_breakouts(ohlcv, multiplier)
screen_delivery_breakouts(data, multiplier10) ==
    SortValues(Scan([s \in Symbols |-> DeliveryBreakoutRows(s, data[s], multiplier10)]),
               "DeliveryRatio", FALSE)

LookbackSlack == 5
MaxFlatPct == 2
MinObvPct == 10

\* mutant of ObvDivergenceRows: either condition is enough
ObvDivergenceRowsEither(symbol, group, lookback) ==
    IF TooShort(group, lookback + LookbackSlack) THEN <<>>
    ELSE LET n == Len(group)
             close == Col(group, "close")
             vol == [i \in 1..n |-> FillNa0(group[i].volume)]
             vol_sum == SeqSum(vol)
             price_start == FromEnd(close, lookback)
             price_end == close[n]
             obv_start == ObvAt(close, vol, n - lookback + 1)
             obv_end == ObvAt(close, vol, n)
         IN  IF vol_sum = 0 THEN <<>>
             ELSE IF price_start <= 0 THEN <<>>
             ELSE IF vol_sum <= 0 THEN <<>>
             \* price_change <= 2 and obv_change_normalized > 10, with
             \* obv_change_normalized = ((obv_end - obv_start) / (avg_vol * lookback)) * 100
             ELSE IF (price_end - price_start) * 100 <= MaxFlatPct * price_start
                     \/ (obv_end - obv_start) * 100 * n > MinObvPct * vol_sum * lookback
             THEN << [Symbol |-> symbol,
                      Price |-> price_end,
                      PriceChangePct |-> PctChange10(price_end, price_start),
                      OBVTrend |-> "Rising",
                      Signal |-> "Accumulation (Bullish)"] >>
             ELSE <<>>

ObvDivergenceRows(symbol, group, lookback) ==
    IF TooShort(group, lookback + LookbackSlack) THEN <<>>
    ELSE LET n == Len(group)
             close == Col(group, "close")
             vol == [i \in 1..n |-> FillNa0(group[i].volume)]
             vol_sum == SeqSum(vol)
             price_start == FromEnd(close, lookback)
             price_end == close[n]
             obv_start == ObvAt(close, vol, n - lookback + 1)
             obv_end == ObvAt(close, vol, n)
         IN  IF vol_sum = 0 THEN <<>>
             ELSE IF price_start <= 0 THEN <<>>
             ELSE IF vol_sum <= 0 THEN <<>>
             \* price_change <= 2 and obv_change_normalized > 10, with
             \* obv_change_normalized = ((obv_end - obv_start) / (avg_vol * lookback)) * 100
             ELSE IF (price_end - price_start) * 100 <= MaxFlatPct * price_start
                     /\ (obv_end - obv_start) * 100 * n > MinObvPct * vol_sum * lookback
             THEN << [Symbol |-> symbol,
                      Price |-> price_end,
                      PriceChangePct |-> PctChange10(price_end, price_start),
                      OBVTrend |-> "Rising",
                      Signal |-> "Accumulation (Bullish)"] >>
             ELSE <<>>

\* screen_obv_divergence(ohlcv, lookback)
screen_obv_divergence(data, lookback) ==
    SortValues(Scan([s \in Symbols |-> ObvDivergenceRows(s, data[s], lookback)]),
               "PriceChangePct", TRUE)

(* ---- src/src/screener_red_flags.py ---- *)

MinBarsDeathCross == 210

\* mutant of DeathCrossRows: a row for a crossing of either kind
DeathCrossRowsAnyCross(symbol, group, lookback) ==
    IF TooShort(group, MinBarsDeathCross) THEN <<>>
    ELSE IF golden_death_cross(Col(group, "close"), lookback) = "NONE" THEN <<>>
    ELSE << [Symbol |-> symbol,
             Price |-> group[Len(group)].close,
             DMA50 |-> Dma100(RollingSum(Col(group, "close"), ShortMA, Len(group)), ShortMA),
             DMA200 |-> Dma100(RollingSum(Col(group, "close"), LongMA, Len(group)), LongMA),
             Flag |-> "Death Cross"] >>

DeathCrossRows(symbol, group, lookback) ==
    IF TooShort(group, MinBarsDeathCross) THEN <<>>
    ELSE LET n == Len(group)
             close == Col(group, "close")
         IN  IF golden_death_cross(close, lookback) = "DEATH"
             THEN << [Symbol |-> symbol,
                      Price |-> close[n],
                      DMA50 |-> Dma100(RollingSum(close, ShortMA, n), ShortMA),
                      DMA200 |-> Dma100(RollingSum(close, LongMA, n), LongMA),
                      Flag |-> "Death Cross"] >>
             ELSE <<>>

\* screen_death_cross(ohlcv, lookback): rows stay in scan order
screen_death_cross(data, lookback) ==
    Scan([s \in Symbols |-> DeathCrossRows(s, data[s], lookback)])

MinRisePct == 3
MaxSlope10 == -3

\* np.polyfit(x, y, 1)[0] < -0.3 for x = 0..n-1: the least-squares slope is
\* (n * Sxy - Sx * Sy) / (n * Sxx - Sx * Sx), whose denominator is positive for n >= 2
SlopeBelow(y) ==
    LET n == Len(y)
        Sx == SeqSum([i \in 1..n |-> i - 1])
        Sxx == SeqSum([i \in 1..n |-> (i - 1) * (i - 1)])
        Sy == SeqSum(y)
        Sxy == SeqSum([i \in 1..n |-> (i - 1) * y[i]])
    IN  10 * (n * Sxy - Sx * Sy) < MaxSlope10 * (n * Sxx - Sx * Sx)

FallingDeliveryRows(symbol, group, lookback) ==
    IF TooShort(group, lookback + LookbackSlack) THEN <<>>
    ELSE LET recent == Tail_(group, lookback)
             close == Col(recent, "close")
             delivery == [i \in 1..Len(recent) |-> FillNa0(recent[i].delivery_pct)]
             last == close[Len(close)]
         IN  IF SeqSum(delivery) = 0 THEN <<>>
             \* price_change <= 3, with price_change = 0 when close.iloc[0] is not positive
             ELSE IF close[1] <= 0 \/ (last - close[1]) * 100 <= MinRisePct * close[1] THEN <<>>
             \* np.std(y) == 0: every value the same
             ELSE IF \A i \in 1..Len(delivery) : delivery[i] = delivery[1] THEN <<>>
             ELSE IF SlopeBelow(delivery)
             THEN << [Symbol |-> symbol,
                      Price |-> last,
                      PriceChangePct |-> PctChange10(last, close[1]),
                      DeliveryStart |-> delivery[1],
                      DeliveryEnd |-> delivery[Len(delivery)],
                      Flag |-> "Speculative Rally"] >>
             ELSE <<>>

\* screen_falling_delivery(ohlcv, lookback)
screen_falling_delivery(data, lookback) ==
    SortValues(Scan([s \in Symbols |-> FallingDeliveryRows(s, data[s], lookback)]),
               "PriceChangePct", FALSE)

MinBarsBelowMAs == 200
MA20 == 20
MA100 == 100

\* mutant of BelowAllMAsRows: only the 200-bar average is compared
BelowAllMAsRowsLongOnly(symbol, group) ==
    IF TooShort(group, MinBarsBelowMAs) THEN <<>>
    ELSE LET n == Len(group)
             close == Col(group, "close")
             current == close[n]
             s20 == RollingSum(close, MA20, n)
             s50 == RollingSum(close, ShortMA, n)
             s100 == RollingSum(close, MA100, n)
             s200 == RollingSum(close, LongMA, n)
         IN  IF IsNaN(s20) \/ IsNaN(s50) \/ IsNaN(s100) \/ IsNaN(s200) THEN <<>>
             ELSE IF current * LongMA < s200
             THEN << [Symbol |-> symbol,
                      Price |-> current,
                      DMA20 |-> Dma100(s20, MA20),
                      DMA50 |-> Dma100(s50, ShortMA),
                      DMA200 |-> Dma100(s200, LongMA),
                      \* dist = ((dma200 - current) / dma200) * 100, in tenths
                      Below200Pct |-> RoundDiv(1000 * (s200 - LongMA * current), s200),
                      Flag |-> "Below All MAs"] >>
             ELSE <<>>

BelowAllMAsRows(symbol, group) ==
    IF TooShort(group, MinBarsBelowMAs) THEN <<>>
    ELSE LET n == Len(group)
             close == Col(group, "close")
             current == close[n]
             s20 == RollingSum(close, MA20, n)
             s50 == RollingSum(close, ShortMA, n)
             s100 == RollingSum(close, MA100, n)
             s200 == RollingSum(close, LongMA, n)
         IN  IF IsNaN(s20) \/ IsNaN(s50) \/ IsNaN(s100) \/ IsNaN(s200) THEN <<>>
             ELSE IF current * MA20 < s20 /\ current * ShortMA < s50
                     /\ current * MA100 < s100 /\ current * LongMA < s200
             THEN << [Symbol |-> symbol,
                      Price |-> current,
                      DMA20 |-> Dma100(s20, MA20),
                      DMA50 |-> Dma100(s50, ShortMA),
                      DMA200 |-> Dma100(s200, LongMA),
                      \* dist = ((dma200 - current) / dma200) * 100, in tenths
                      Below200Pct |-> RoundDiv(1000 * (s200 - LongMA * current), s200),
                      Flag |-> "Below All MAs"] >>
             ELSE <<>>

\* screen_below_all_mas(ohlcv)
screen_below_all_mas(data) ==
    SortValues(Scan([s \in Symbols |-> BelowAllMAsRows(s, data[s])]), "Below200Pct", FALSE)

(* ---- src/src/screener_sector.py ---- *)

MinBarsBreadth == 200

\* compute_market_breadth(ohlcv): the symbols with at least 200 bars and the share
\* of them closing above the 200-, 50- and 20-bar SMA, in tenths of a percent
compute_market_breadth(data) ==
    LET counted == {s \in Symbols : ~TooShort(data[s], MinBarsBreadth)}
        Above(period) ==
            {s \in counted :
                LET close == Col(data[s], "close")
                    dma == RollingSum(close, period, Len(close))
                IN  ~IsNaN(dma) /\ close[Len(close)] * period > dma}
        total == Cardinality(counted)
    IN  IF total = 0
        THEN [total |-> 0, above_200_pct |-> 0, above_50_pct |-> 0, above_20_pct |-> 0]
        ELSE [total |-> total,
              above_200_pct |-> RoundDiv(1000 * Cardinality(Above(LongMA)), total),
              above_50_pct |-> RoundDiv(1000 * Cardinality(Above(ShortMA)), total),
              above_20_pct |-> RoundDiv(1000 * Cardinality(Above(MA20)), total)]

----------------------------------------------------------------------------
(* Screens on the promoter-holdings table.  A record of the table is
   [symbol, quarter, promoter_holding_pct, pledge_pct, fii_holding_pct,
   dii_holding_pct]; percentages are in hundredths, or NaN where
   pd.to_numeric(errors="coerce") finds no number; `quarter` is the position
   of the quarter's label in the order sort_values gives the labels. *)

\* df[mask], the mask a sequence of booleans as long as the rows
SelectRows(rows, mask) ==
    LET kept[i \in 0..Len(rows)] ==
            IF i = 0 THEN <<>>
            ELSE IF mask[i] THEN Append(kept[i - 1], rows[i]) ELSE kept[i - 1]
    IN  kept[Len(rows)]

RECURSIVE DropDuplicates(_, _)
\* df.drop_duplicates("symbol", keep="first"); `seen` are the symbols met so far
DropDuplicates(rows, seen) ==
    IF rows = <<>> THEN <<>>
    ELSE IF Head(rows).symbol \in seen THEN DropDuplicates(Tail(rows), seen)
    ELSE <<Head(rows)>> \o DropDuplicates(Tail(rows), seen \cup {Head(rows).symbol})

\* series.round(1) of a percentage in hundredths, in tenths
Round1(x) == IF IsNaN(x) THEN NaN ELSE RoundDiv(x, 10)

\* the first value of a column that is not missing (GroupBy.first), NaN when none is
RECURSIVE FirstValid(_, _)
FirstValid(rows, f) ==
    IF rows = <<>> THEN NaN
    ELSE IF ~IsNaN(Head(rows)[f]) THEN Head(rows)[f] ELSE FirstValid(Tail(rows), f)

(* ---- src/src/screener_red_flags.py ---- *)

\* screen_high_pledge(promoter_df, threshold_pct) of screener_red_flags
screen_high_pledge(promoter_df, threshold_pct) ==
    LET df == [i \in 1..Len(promoter_df) |->
                 [promoter_df[i] EXCEPT !.pledge_pct = FillNa0(@)]]
        latest == DropDuplicates(SortValues(df, "quarter", FALSE), {})
        flagged == SelectRows(latest, [i \in 1..Len(latest) |->
                                          latest[i].pledge_pct >= 100 * threshold_pct])
        result == [i \in 1..Len(flagged) |->
                     [Symbol |-> flagged[i].symbol,
                      PromoterHoldingPct |-> Round1(flagged[i].promoter_holding_pct),
                      PledgePct |-> Round1(flagged[i].pledge_pct),
                      Quarter |-> flagged[i].quarter]]
    IN  SortValues(result, "PledgePct", FALSE)

(* ---- src/src/screener_promoter.py ---- *)

MinQuarters == 2

\* the quarter-over-quarter changes of a list of holdings
QoQ(holdings) == [j \in 1..(Len(holdings) - 1) |-> holdings[j + 1] - holdings[j]]

\* mutant of Trend: as many rises as falls counts as mostly increasing
TrendTiesUp(qoq) ==
    LET ups == Cardinality({j \in 1..Len(qoq) : qoq[j] > 0})
        downs == Cardinality({j \in 1..Len(qoq) : qoq[j] < 0})
    IN  IF ups > 0 /\ downs = 0 THEN "Steady Increase"
        ELSE IF downs > 0 /\ ups = 0 THEN "Steady Decrease"
        ELSE IF ups >= downs THEN "Mostly Increasing"
        ELSE "Mostly Decreasing"

\* the trend label of a list of changes
Trend(qoq) ==
    LET ups == Cardinality({j \in 1..Len(qoq) : qoq[j] > 0})
        downs == Cardinality({j \in 1..Len(qoq) : qoq[j] < 0})
    IN  IF ups > 0 /\ downs = 0 THEN "Steady Increase"
        ELSE IF downs > 0 /\ ups = 0 THEN "Steady Decrease"
        ELSE IF ups > downs THEN "Mostly Increasing"
        ELSE IF downs > ups THEN "Mostly Decreasing"
        ELSE "Mixed"

\* mutant of PromoterRows: a quarter without a holding value counts as a holding of zero
PromoterRowsMissingAsZero(symbol, df) ==
    LET own == SelectRows(df, [i \in 1..Len(df) |-> df[i].symbol = symbol])
        sorted == SortValues(own, "quarter", TRUE)
        grp == [i \in 1..Len(sorted) |->
                  [sorted[i] EXCEPT !.promoter_holding_pct = FillNa0(@)]]
    IN  IF TooShort(grp, MinQuarters) THEN <<>>
        ELSE LET holdings == Column(grp, "promoter_holding_pct")
                 qoq == QoQ(holdings)
                 latest == grp[Len(grp)]
             IN  << [Symbol |-> symbol,
                     PromoterPct |-> Round1(latest.promoter_holding_pct),
                     Change6M |-> holdings[Len(holdings)] - holdings[1],
                     Trend |-> Trend(qoq),
                     QoQChanges |-> qoq,
                     PledgePct |-> Round1(latest.pledge_pct),
                     FIIPct |-> Round1(latest.fii_holding_pct),
                     DIIPct |-> Round1(latest.dii_holding_pct),
                     Quarters |-> Len(grp)] >>

PromoterRows(symbol, df) ==
    LET own == SelectRows(df, [i \in 1..Len(df) |-> df[i].symbol = symbol])
        sorted == SortValues(own, "quarter", TRUE)
        grp == SelectRows(sorted, [i \in 1..Len(sorted) |->
                                     ~IsNaN(sorted[i].promoter_holding_pct)])
    IN  IF TooShort(grp, MinQuarters) THEN <<>>
        ELSE LET holdings == Column(grp, "promoter_holding_pct")
                 qoq == QoQ(holdings)
                 latest == grp[Len(grp)]
             IN  << [Symbol |-> symbol,
                     PromoterPct |-> Round1(latest.promoter_holding_pct),
                     Change6M |-> holdings[Len(holdings)] - holdings[1],
                     Trend |-> Trend(qoq),
                     QoQChanges |-> qoq,
                     PledgePct |-> Round1(latest.pledge_pct),
                     FIIPct |-> Round1(latest.fii_holding_pct),
                     DIIPct |-> Round1(latest.dii_holding_pct),
                     Quarters |-> Len(grp)] >>

\* the keys of df.groupby("symbol"), in order
GroupKeys(df) ==
    SelectRows(SymbolOrder, [k \in 1..Len(SymbolOrder) |->
                                \E i \in 1..Len(df) : df[i].symbol = SymbolOrder[k]])

\* screen_promoter_holdings(promoter_df); 6M Change % is in hundredths
screen_promoter_holdings(promoter_df) ==
    LET df == [i \in 1..Len(promoter_df) |->
                 [promoter_df[i] EXCEPT !.pledge_pct = FillNa0(@),
                                        !.fii_holding_pct = FillNa0(@),
                                        !.dii_holding_pct = FillNa0(@)]]
    IN  SortValues(Concat([s \in Symbols |-> PromoterRows(s, df)], GroupKeys(df)),
                   "Change6M", FALSE)

\* mutant of LatestOf: the quarters taken oldest first
LatestOfAscending(symbol, df) ==
    LET own == SortValues(SelectRows(df, [i \in 1..Len(df) |-> df[i].symbol = symbol]),
                          "quarter", TRUE)
    IN  [symbol |-> symbol,
         promoter_holding_pct |-> FirstValid(own, "promoter_holding_pct"),
         pledge_pct |-> FirstValid(own, "pledge_pct")]

\* one group of screen_high_pledge's groupby("symbol").first()
LatestOf(symbol, df) ==
    LET own == SortValues(SelectRows(df, [i \in 1..Len(df) |-> df[i].symbol = symbol]),
                          "quarter", FALSE)
    IN  [symbol |-> symbol,
         promoter_holding_pct |-> FirstValid(own, "promoter_holding_pct"),
         pledge_pct |-> FirstValid(own, "pledge_pct")]

\* screen_high_pledge(promoter_df, threshold_pct) of screener_promoter
screen_high_pledge_promoter(promoter_df, threshold_pct) ==
    LET df == [i \in 1..Len(promoter_df) |->
                 [promoter_df[i] EXCEPT !.pledge_pct = FillNa0(@)]]
        keys == GroupKeys(df)
        latest == [i \in 1..Len(keys) |-> LatestOf(keys[i], df)]
        high == SelectRows(latest, [i \in 1..Len(latest) |->
                                       latest[i].pledge_pct >= 100 * threshold_pct])
        result == [i \in 1..Len(high) |->
                     [Symbol |-> high[i].symbol,
                      PromoterHoldingPct |-> Round1(high[i].promoter_holding_pct),
                      PledgePct |-> Round1(high[i].pledge_pct)]]
    IN  SortValues(result, "PledgePct", FALSE)

----------------------------------------------------------------------------
(* The Price-Volume Intersection view: src/app.py, tab 3.  The dashboard runs
   screen_big_drops and screen_volume_spikes on the whole table, each at the
   value of its own slider, and joins the rows of the symbols both return. *)

\* the columns the view takes from a Big Drops row and a Volume Spikes row
MergedRow(d, v) ==
    [Symbol |-> d.Symbol, CurrentPrice |-> d.CurrentPrice, High6M |-> d.High6M,
     DropPct |-> d.DropPct, RSI |-> d.RSI, VolRatio |-> v.VolRatio,
     DeliveryAboveAvg |-> v.DeliveryAboveAvg, PriceChangePct |-> v.PriceChangePct]

\* left.merge(right, on="Symbol", how="inner"): the pairs of rows with the same
\* Symbol, in the order of the left rows
RECURSIVE Merge(_, _)
Merge(left, right) ==
    IF left = <<>> THEN <<>>
    ELSE LET matches == SelectRows(right, [i \in 1..Len(right) |->
                                              right[i].Symbol = Head(left).Symbol])
         IN  [i \in 1..Len(matches) |-> MergedRow(Head(left), matches[i])]
                 \o Merge(Tail(left), right)

\* the default values of the view's volume sliders
DefaultVolPct == 50
DefaultVolDays == 3

\* mutant of price_volume_intersection: Volume Spikes taken at the default values
\* of its sliders, not at the values chosen
price_volume_intersection_defaults(data, int_drop, int_vol, int_days) ==
    LET int_drops_df == screen_big_drops(data, int_drop)
        int_vol_df == screen_volume_spikes(data, DefaultVolPct, DefaultVolDays)
    IN  SortValues(Merge(int_drops_df, int_vol_df), "DropPct", TRUE)

\* the table the view shows; no table (<<>>) when either screen returns nothing
\* or no symbol is common
price_volume_intersection(data, int_drop, int_vol, int_days) ==
    LET int_drops_df == screen_big_drops(data, int_drop)
        int_vol_df == screen_volume_spikes(data, int_vol, int_days)
        common == SymbolsOf(int_drops_df) \cap SymbolsOf(int_vol_df)
        drops_sub == SelectRows(int_drops_df, [i \in 1..Len(int_drops_df) |->
                                                  int_drops_df[i].Symbol \in common])
        vol_sub == SelectRows(int_vol_df, [i \in 1..Len(int_vol_df) |->
                                              int_vol_df[i].Symbol \in common])
    IN  IF int_drops_df = <<>> \/ int_vol_df = <<>> THEN <<>>
        ELSE IF common = {} THEN <<>>
        ELSE SortValues(Merge(drops_sub, vol_sub), "DropPct", TRUE)

----------------------------------------------------------------------------
(* Input data.  The screens take whatever table the caller passes; the
   tables explored are built from four kinds of series.  Bar k counts from
   the end of the series (k = 0 is the last bar), i from its start. *)

\* flat at 100, then one bar at 70 on three days of heavy volume and delivery
Crash(n) ==
    [i \in 1..n |->
        LET k == n - i
            c == IF k = 0 THEN 70 ELSE 100
        IN  Bar(c, c, c, IF k < 3 THEN 30 ELSE 10, IF k = 0 THEN 20 ELSE 5, 50)]

\* two steps up, one step down, from 100; volume is missing on every fifth day
Rally(n) ==
    [i \in 1..n |->
        LET c == 100 + 2 * ((i + 1) \div 2) - (i \div 2)
        IN  Bar(c + 1, c - 1, c, IF i % 5 = 0 THEN NaN ELSE 10, 5, 40)]

\* alternating 102 / 98, ending at 98, with the heavier volume on the up days
Sideways(n) ==
    [i \in 1..n |->
        LET k == n - i
            c == IF k % 2 = 0 THEN 98 ELSE 102
        IN  Bar(c + 1, c - 1, c, IF k % 2 = 0 THEN 10 ELSE 30, 5, NaN)]

\* flat at 100, then ten days rising by one while the delivery share falls by five
Pump(n) ==
    [i \in 1..n |->
        LET k == n - i
            c == IF k < 10 THEN 110 - k ELSE 100
        IN  Bar(c, c, c, 10, 5, IF k < 10 THEN 15 + 5 * k ELSE 65)]

Kinds == {"crash", "rally", "sideways", "pump"}

Series(kind, n) ==
    CASE kind = "crash" -> Crash(n)
      [] kind = "rally" -> Rally(n)
      [] kind = "sideways" -> Sideways(n)
      [] kind = "pump" -> Pump(n)

\* how many bars a long series has beyond the largest minimum history (210)
ExtraBars == 2

LongLen == MinBarsDeathCross + ExtraBars

\* one bar short of each screen's minimum history, and a long series
Lengths ==
    {MinBarsBigDrops - 1, MinBarsDelivery - 1, MinBarsVolume - 1, MinBarsMomentum - 1,
     MinBarsBelowMAs - 1, MinBarsDeathCross - 1, 14, LongLen}

PromoterTables ==
    { <<>>,
      << Rec("A", 1, 5000, 0), Rec("B", 1, 4000, 2500), Rec("A", 2, 5125, NaN),
         Rec("B", 2, 3950, 3000), Rec("A", 3, 5125, 1000) >>,
      << Rec("B", 3, 6000, 4500), Rec("A", 2, NaN, 2000), Rec("A", 1, 4500, 5000),
         Rec("B", 1, 6100, 500) >>,
      << Rec("A", 1, 3000, 2000), Rec("B", 2, 7000, 2000), Rec("B", 1, 7000, 0),
         Rec("B", 3, NaN, 2000) >> }

NoCall == [fn |-> "none", args |-> <<>>]

\* the table every long series of one kind makes
Market(kind) == [s \in Symbols |-> Series(kind, LongLen)]

\* One symbol has a series of any kind and length and the other a long one, or
\* the OHLCV table is a fixed one and the promoter table varies.
Init ==
    /\ \/ /\ \E a \in Kinds, la \in Lengths, b \in Kinds, short \in Symbols :
                ohlcv = [s \in Symbols |->
                            IF s = short THEN Series(a, la) ELSE Series(b, LongLen)]
          /\ promoter = <<>>
       \/ /\ ohlcv = Market("crash")
          /\ promoter \in PromoterTables
    /\ call = NoCall
    /\ out = <<>>

----------------------------------------------------------------------------
(* Calls.  Each action is one call of a screen by the dashboard (src/app.py)
   on the current tables; the parameter sets are values its sliders offer. *)

\* mutant of Returns: the callee fills the missing pledge values of the caller's
\* table instead of those of a copy
ReturnsWritingBack(fn, args, result) ==
    /\ call = NoCall
    /\ call' = [fn |-> fn, args |-> args]
    /\ out' = result
    /\ promoter' = [i \in 1..Len(promoter) |->
                       [promoter[i] EXCEPT !.pledge_pct = FillNa0(@)]]
    /\ UNCHANGED ohlcv

\* a call is made when the previous result has been rendered and dropped
Returns(fn, args, result) ==
    /\ call = NoCall
    /\ call' = [fn |-> fn, args |-> args]
    /\ out' = result
    /\ UNCHANGED <<ohlcv, promoter>>

DropThresholds == {20, 30, 35}
RangePcts == {2, 5}
MinDays == {5, 10}
VolThresholds == {50}
ConsecutiveDays == {1, 3}
Multipliers10 == {20, 30, 40}
Lookbacks == {10, 20}
PledgeThresholds == {20}

CallBigDrops ==
    \E t \in DropThresholds : Returns("screen_big_drops", <<t>>, screen_big_drops(ohlcv, t))

CallRangeBound ==
    \E r \in RangePcts, d \in MinDays :
        Returns("screen_range_bound", <<r, d>>, screen_range_bound(ohlcv, r, d))

CallVolumeSpikes ==
    \E t \in VolThresholds, d \in ConsecutiveDays :
        Returns("screen_volume_spikes", <<t, d>>, screen_volume_spikes(ohlcv, t, d))

CallMomentumLeaders ==
    Returns("screen_momentum_leaders", <<>>, screen_momentum_leaders(ohlcv))

CallDeliveryBreakouts ==
    \E m \in Multipliers10 :
        Returns("screen_delivery_breakouts", <<m>>, screen_delivery_breakouts(ohlcv, m))

CallObvDivergence ==
    \E l \in Lookbacks :
        Returns("screen_obv_divergence", <<l>>, screen_obv_divergence(ohlcv, l))

CallDeathCross ==
    \E l \in Lookbacks :
        Returns("screen_death_cross", <<l>>, screen_death_cross(ohlcv, l))

CallFallingDelivery ==
    \E l \in Lookbacks :
        Returns("screen_falling_delivery", <<l>>, screen_falling_delivery(ohlcv, l))

CallBelowAllMAs ==
    Returns("screen_below_all_mas", <<>>, screen_below_all_mas(ohlcv))

CallMarketBreadth ==
    Returns("compute_market_breadth", <<>>, compute_market_breadth(ohlcv))

CallPromoterHoldings ==
    Returns("screen_promoter_holdings", <<>>, screen_promoter_holdings(promoter))

CallHighPledge ==
    \E t \in PledgeThresholds :
        Returns("screen_high_pledge", <<t>>, screen_high_pledge(promoter, t))

CallHighPledgePromoter ==
    \E t \in PledgeThresholds :
        Returns("screen_high_pledge_promoter", <<t>>, screen_high_pledge_promoter(promoter, t))

\* the dashboard has rendered the table; nothing of it is kept
Discard ==
    /\ call # NoCall
    /\ call' = NoCall
    /\ out' = <<>>
    /\ UNCHANGED <<ohlcv, promoter>>

\* moving_averages(close) on a symbol's closes, as compute_all_indicators calls it
CallMovingAverages ==
    \E s \in Symbols :
        /\ Len(ohlcv[s]) > 0
        /\ Returns("moving_averages", <<s>>, moving_averages(Col(ohlcv[s], "close")))

Next ==
    \/ CallBigDrops
    \/ CallRangeBound
    \/ CallVolumeSpikes
    \/ CallMomentumLeaders
    \/ CallDeliveryBreakouts
    \/ CallObvDivergence
    \/ CallDeathCross
    \/ CallFallingDelivery
    \/ CallBelowAllMAs
    \/ CallPromoterHoldings
    \/ CallHighPledge
    \/ CallHighPledgePromoter
    \/ Discard

Spec == Init /\ [][Next]_vars

\* Momentum Leaders next to the moving averages it reads, on the same tables
NextMomentum ==
    \/ CallMovingAverages
    \/ CallMomentumLeaders
    \/ CallMarketBreadth
    \/ Discard

SpecMomentum == Init /\ [][NextMomentum]_vars

----------------------------------------------------------------------------
(* The price screens on short series.  The table starts one bar short of
   screen_big_drops' minimum history and grows by the bars of new trading
   days (load_all_data appends each day's bhavcopy to the ohlcv table). *)

\* how many bars are appended to the table
MaxNewBars == 2

\* n bars whose last k closes alternate 102 / 98 (ending at 98) after closes
\* alternating 150 / 50
VolatileThenFlat(n, k) ==
    [i \in 1..n |->
        LET j == n - i
            c == IF j < k THEN (IF j % 2 = 0 THEN 98 ELSE 102)
                 ELSE (IF j % 2 = 0 THEN 50 ELSE 150)
        IN  Bar(c, c, c, 10, 5, 50)]

Flat(n, c) == [i \in 1..n |-> Bar(c, c, c, 10, 5, 50)]

ShortLen == MinBarsBigDrops - 1

PriceSeries ==
    {VolatileThenFlat(ShortLen, 9), VolatileThenFlat(ShortLen, 13),
     VolatileThenFlat(ShortLen, ShortLen), Flat(ShortLen, 100), Flat(ShortLen, 0)}

\* the bars a new day may bring: [high, close]
PriceBars == {<<100, 70>>, <<102, 102>>, <<100, 100>>, <<0, 0>>}

InitPrice ==
    /\ ohlcv \in [Symbols -> PriceSeries]
    /\ promoter = <<>>
    /\ call = NoCall
    /\ out = <<>>

\* the bars in the table beyond those it started with
Appended(base) == SeqSum([i \in 1..Len(SymbolOrder) |-> Len(ohlcv[SymbolOrder[i]]) - base])

\* one more trading day for symbol s, while fewer than `cap` days were added
NewBar(s, bar, base, cap) ==
    /\ call = NoCall
    /\ Appended(base) < cap
    /\ ohlcv' = [ohlcv EXCEPT ![s] = Append(@, bar)]
    /\ UNCHANGED <<promoter, call, out>>

NewPriceBar ==
    \E s \in Symbols, b \in PriceBars :
        NewBar(s, Bar(b[1], b[2], b[2], 10, 5, 50), ShortLen, MaxNewBars)

NextPrice ==
    \/ NewPriceBar
    \/ CallBigDrops
    \/ CallRangeBound
    \/ Discard

SpecPrice == InitPrice /\ [][NextPrice]_vars

\* series for the width test of Range-Bound: those above, a longer one flat over
\* its last 5 bars only, and a flat one that ends on a zero close
RangeSeries ==
    PriceSeries \cup
      {VolatileThenFlat(ShortLen + 6, 5),
       Append(Flat(ShortLen, 100), Bar(0, 0, 0, 10, 5, 50))}

InitRange ==
    /\ ohlcv \in [Symbols -> RangeSeries]
    /\ promoter = <<>>
    /\ call = NoCall
    /\ out = <<>>

NextRange ==
    \/ CallRangeBound
    \/ Discard

SpecRange == InitRange /\ [][NextRange]_vars

----------------------------------------------------------------------------
(* supertrend on the first bars of a series.  The table of one symbol grows
   from nothing, and supertrend is called on its high, low and close columns
   with small periods, so that the days before and after the seeding of the
   average true range are all within reach. *)

\* how many bars the series grows to
MaxTrendBars == 4

\* the bars a new day may bring: [high, low, close]
TrendBars == {<<100, 100, 100>>, <<103, 103, 103>>, <<101, 95, 96>>}

Periods == {1, 2, 3}
BandMultipliers == {1, 3}

InitTrend ==
    /\ ohlcv = [s \in Symbols |-> <<>>]
    /\ promoter = <<>>
    /\ call = NoCall
    /\ out = <<>>

NewTrendBar ==
    \E b \in TrendBars :
        NewBar(SymbolOrder[1], Bar(b[1], b[2], b[3], b[1] - 90, 5, 50), 0, MaxTrendBars)

\* supertrend(high, low, close, period, multiplier) on a symbol's columns
CallSupertrend ==
    \E s \in Symbols, period \in Periods, multiplier \in BandMultipliers :
        /\ Len(ohlcv[s]) > 0
        /\ Returns("supertrend", <<s, period, multiplier>>,
                   supertrend(Col(ohlcv[s], "high"), Col(ohlcv[s], "low"),
                              Col(ohlcv[s], "close"), period, multiplier))

\* rsi(close, period) on a symbol's closes; the values are in tenths
CallRsi ==
    \E s \in Symbols, period \in Periods :
        /\ Len(ohlcv[s]) > 0
        /\ Returns("rsi", <<s, period>>, rsi(Col(ohlcv[s], "close"), period))

\* obv(close, volume) on a symbol's closes and volumes
CallObv ==
    \E s \in Symbols :
        /\ Len(ohlcv[s]) > 0
        /\ Returns("obv", <<s>>, obv(Col(ohlcv[s], "close"), Col(ohlcv[s], "volume")))

NextTrend ==
    \/ NewTrendBar
    \/ CallSupertrend
    \/ CallRsi
    \/ CallObv
    \/ Discard

SpecTrend == InitTrend /\ [][NextTrend]_vars

----------------------------------------------------------------------------
(* The moving-average crossings.  One symbol's series is flat at 100 for as
   long as the 200-bar average needs, or two bars less, and then grows by days
   whose closes move the 50-bar average across the 200-bar average; the other
   symbol stays flat. *)

\* how many bars the series grows by
MaxCrossBars == 3

\* the lengths the flat series start with
CrossBases == {LongMA - 2, MinBarsDeathCross - 2}

\* the closes a new day may bring
CrossCloses == {0, 100, 150, 250}

CrossLookbacks == {1, 2, 10}

InitCross ==
    /\ \E n \in CrossBases : ohlcv = [s \in Symbols |-> Flat(n, 100)]
    /\ promoter = <<>>
    /\ call = NoCall
    /\ out = <<>>

NewCrossBar ==
    \E c \in CrossCloses :
        NewBar(SymbolOrder[1], Bar(c, c, c, 10, 5, 50), Len(ohlcv[SymbolOrder[2]]),
               MaxCrossBars)

\* golden_death_cross(close, lookback) on a symbol's closes; None is "NONE"
CallGoldenDeathCross ==
    \E s \in Symbols, l \in CrossLookbacks :
        Returns("golden_death_cross", <<s, l>>,
                <<golden_death_cross(Col(ohlcv[s], "close"), l)>>)

CallDeathCrossRecent ==
    \E l \in CrossLookbacks :
        Returns("screen_death_cross", <<l>>, screen_death_cross(ohlcv, l))

NextCross ==
    \/ NewCrossBar
    \/ CallGoldenDeathCross
    \/ CallDeathCrossRecent
    \/ Discard

SpecCross == InitCross /\ [][NextCross]_vars

----------------------------------------------------------------------------
(* Volume Spikes at its minimum history.  Each series starts one bar short of
   the screen's minimum, at volume 10 with one missing volume, and grows by
   days of small, large and missing volume. *)

\* how many bars are appended to the table
MaxVolumeBars == 3

\* n bars at 100 with volume 10, the first bar's volume missing
VolumeBase(n) ==
    [i \in 1..n |-> Bar(100, 100, 100, IF i = 1 THEN NaN ELSE 10, 5, 50)]

\* the volumes a new day may bring
NewVolumes == {NaN, 0, 15, 29, 30}

SpikeThresholds == {50, 200}
SpikeDays == {1, 2, 3}

InitVolume ==
    /\ ohlcv = [s \in Symbols |-> VolumeBase(MinBarsVolume - 1)]
    /\ promoter = <<>>
    /\ call = NoCall
    /\ out = <<>>

NewVolumeBar ==
    \E s \in Symbols, v \in NewVolumes :
        NewBar(s, Bar(100, 100, 100, v, 5, 50), MinBarsVolume - 1, MaxVolumeBars)

CallVolumeSpikesRecent ==
    \E t \in SpikeThresholds, d \in SpikeDays :
        Returns("screen_volume_spikes", <<t, d>>, screen_volume_spikes(ohlcv, t, d))

NextVolume ==
    \/ NewVolumeBar
    \/ CallVolumeSpikesRecent
    \/ Discard

SpecVolume == InitVolume /\ [][NextVolume]_vars

----------------------------------------------------------------------------
(* Degenerate and incomplete data, and the derived view.  One symbol of the
   table has a series with zero prices, missing volume or delivery, or no
   bars at all, next to a symbol with a long well-formed series; every screen
   and the Price-Volume Intersection view are called on such tables. *)

\* no trade at all: zero prices, volume and delivery missing
ZeroBars(n) == [i \in 1..n |-> Bar(0, 0, 0, NaN, NaN, NaN)]

\* closes flat at 100 under highs of 150, the last three days on double volume
FlatSpike(n) ==
    [i \in 1..n |-> Bar(150, 100, 100, IF n - i < 3 THEN 20 ELSE 10, 5, 50)]

\* flat at 100, then closes 0, 100, 0, 95, the up days on triple volume and the
\* last day on triple delivery
ZeroStart(n) ==
    [i \in 1..n |->
        LET k == n - i
            c == IF k = 0 THEN 95 ELSE IF k = 1 \/ k = 3 THEN 0 ELSE 100
        IN  Bar(c, c, c, IF k = 0 \/ k = 2 THEN 30 ELSE 10, IF k = 0 THEN 15 ELSE 5, 50)]

\* the rising series without any delivery data, the last day on triple volume
NoDelivery(n) ==
    [i \in 1..n |-> Bar(Pump(n)[i].high, Pump(n)[i].low, Pump(n)[i].close,
                        IF i = n THEN 30 ELSE 10, NaN, NaN)]

\* a promoter table where the symbol scanned second has the larger change
RisingLast ==
    << Rec("A", 1, 5000, 1000), Rec("A", 2, 4900, 1000), Rec("B", 1, 4000, 3000),
       Rec("B", 2, 4300, 3000) >>

EdgeKinds == {"zero", "flatspike", "zerostart", "nodelivery"}

Edge(kind, n) ==
    CASE kind = "zero" -> ZeroBars(n)
      [] kind = "flatspike" -> FlatSpike(n)
      [] kind = "zerostart" -> ZeroStart(n)
      [] kind = "nodelivery" -> NoDelivery(n)

\* no bars, the minimum history of Volume Spikes, and a long series
EdgeLengths == {0, MinBarsVolume, LongLen}

InitEdge ==
    /\ \/ /\ \E e \in EdgeKinds, n \in EdgeLengths, b \in Kinds, odd \in Symbols :
                ohlcv = [s \in Symbols |->
                            IF s = odd THEN Edge(e, n) ELSE Series(b, LongLen)]
          /\ promoter = <<>>
       \/ /\ \E a \in Kinds, b \in Kinds :
                ohlcv = [s \in Symbols |->
                            IF s = SymbolOrder[1] THEN Series(a, LongLen)
                            ELSE Series(b, LongLen)]
          /\ promoter = <<>>
       \/ /\ ohlcv = Market("crash")
          /\ promoter \in PromoterTables \cup {RisingLast}
    /\ call = NoCall
    /\ out = <<>>

\* values of the view's volume sliders
IntVolPcts == {50, 200}
IntDays == {1, 3}

\* the dashboard renders the Price-Volume Intersection tab
CallIntersection ==
    \E d \in DropThresholds, t \in IntVolPcts, n \in IntDays :
        Returns("price_volume_intersection", <<d, t, n>>,
                price_volume_intersection(ohlcv, d, t, n))

NextEdge ==
    \/ CallMovingAverages
    \/ CallBigDrops
    \/ CallRangeBound
    \/ CallVolumeSpikes
    \/ CallMomentumLeaders
    \/ CallDeliveryBreakouts
    \/ CallObvDivergence
    \/ CallDeathCross
    \/ CallFallingDelivery
    \/ CallBelowAllMAs
    \/ CallPromoterHoldings
    \/ CallHighPledge
    \/ CallHighPledgePromoter
    \/ CallIntersection
    \/ Discard

SpecEdge == InitEdge /\ [][NextEdge]_vars

----------------------------------------------------------------------------
(* Calls in any order on one pair of tables.  Both symbols have the minimum
   history of Volume Spikes, one a well-formed series and the other a
   degenerate one, next to each promoter table; the screens, the view and
   compute_all_indicators are called on them. *)

\* promoter tables of three and four quarters: two rises and a fall, two falls and
\* a rise; a rise and a fall, no change at all; no change and a rise, a fall and
\* no change around a quarter without a value
TrendTables ==
    { << Rec("A", 1, 5000, 0), Rec("A", 2, 5100, 0), Rec("A", 3, 5200, 0),
         Rec("A", 4, 5150, 0), Rec("B", 1, 4000, 0), Rec("B", 2, 3900, 0),
         Rec("B", 3, 3800, 0), Rec("B", 4, 3850, 0) >>,
      << Rec("A", 1, 5000, 0), Rec("A", 2, 5100, 0), Rec("A", 3, 5000, 0),
         Rec("B", 1, 4000, 0), Rec("B", 2, 4000, 0), Rec("B", 3, 4000, 0) >>,
      << Rec("A", 1, 5000, 0), Rec("A", 2, 5000, 0), Rec("A", 3, 5100, 0),
         Rec("B", 1, 4000, 0), Rec("B", 2, NaN, 0), Rec("B", 3, 3900, 0),
         Rec("B", 4, 3900, 0) >> }

InitFrame ==
    /\ \E a \in Kinds, e \in EdgeKinds :
          ohlcv = [s \in Symbols |->
                      IF s = SymbolOrder[1] THEN Series(a, MinBarsVolume)
                      ELSE Edge(e, MinBarsVolume)]
    /\ promoter \in PromoterTables \cup TrendTables
    /\ call = NoCall
    /\ out = <<>>

\* compute_all_indicators on the bars of one symbol (a single-stock table)
CallComputeAllIndicators ==
    \E s \in Symbols :
        Returns("compute_all_indicators", <<s>>, compute_all_indicators(ohlcv[s]))

NextFrame ==
    \/ CallComputeAllIndicators
    \/ CallMovingAverages
    \/ CallBigDrops
    \/ CallRangeBound
    \/ CallVolumeSpikes
    \/ CallMomentumLeaders
    \/ CallDeliveryBreakouts
    \/ CallObvDivergence
    \/ CallDeathCross
    \/ CallFallingDelivery
    \/ CallBelowAllMAs
    \/ CallPromoterHoldings
    \/ CallHighPledge
    \/ CallHighPledgePromoter
    \/ CallIntersection
    \/ Discard

SpecFrame == InitFrame /\ [][NextFrame]_vars

----------------------------------------------------------------------------
(* The rolling window: src/src/utils.py and src/src/data_fetcher.py.  The cache
   is the ohlcv table of the SQLite file, a set of rows with the key (symbol,
   trade_date).  load_all_data downloads the bhavcopy of every trading day of
   the window that the cache does not hold and deletes the rows older than the
   window and 15 days; get_ohlcv_df reads the rows of the window.  Dates are day
   numbers, day 0 a Monday. *)

LOOKBACK_MONTHS == 6
MarketCloseHour == 16

\* the day the dashboard runs
Today == 700

\* the holidays of the trading calendar
MARKET_HOLIDAYS == {Today - 199, Today - 150, Today - 58, Today - 3}

is_trading_day(d) == d % 7 < 5 /\ d \notin MARKET_HOLIDAYS

trading_days_between(start, end) ==
    SelectSeq([i \in 1..(end - start + 1) |-> start + i - 1], is_trading_day)

\* get_dates_to_fetch(conn), run on day `today` at hour `hour`
get_dates_to_fetch(db, today, hour) ==
    LET start == today - (LOOKBACK_MONTHS * 30 + 15)
        all_trading_days == trading_days_between(start, today)
        existing == {r.trade_date : r \in {x \in db : x.trade_date >= start}}
        closed == IF hour < MarketCloseHour
                  THEN SelectSeq(all_trading_days, LAMBDA d : d < today)
                  ELSE all_trading_days
    IN  SelectSeq(closed, LAMBDA d : d \notin existing)

\* load_all_data(), run on day `today` at hour `hour`; bhavcopy[d] is the set of rows
\* the exchange serves for day d, empty when the download fails
load_all_data(db, today, hour, bhavcopy) ==
    LET dates_needed == get_dates_to_fetch(db, today, hour)
        appended == db \cup UNION {bhavcopy[dates_needed[i]] : i \in 1..Len(dates_needed)}
    IN  IF dates_needed = <<>> THEN db
        ELSE {r \in appended : ~(r.trade_date < today - (LOOKBACK_MONTHS * 30 + 30))}

\* mutant of get_ohlcv_df: the rows the clean-up of load_all_data leaves, read
\* without the cutoff
get_ohlcv_df_uncut(db, today) ==
    [s \in Symbols |->
        LET rows == {r \in db : r.symbol = s}
            dates == {r.trade_date : r \in rows}
        IN  IF dates = {} THEN <<>>
            ELSE LET first == CHOOSE d \in dates : \A e \in dates : d <= e
                     last == CHOOSE d \in dates : \A e \in dates : e <= d
                     ordered == SelectSeq([i \in 1..(last - first + 1) |-> first + i - 1],
                                          LAMBDA d : d \in dates)
                 IN  [i \in 1..Len(ordered) |->
                         CHOOSE r \in rows : r.trade_date = ordered[i]]]

\* get_ohlcv_df(), run on day `today`: the rows with trade_date >= cutoff in the
\* order of symbol and trade_date, here grouped by symbol
get_ohlcv_df(db, today) ==
    [s \in Symbols |->
        LET cutoff == today - (LOOKBACK_MONTHS * 30 + 15)
            rows == {r \in db : r.symbol = s /\ r.trade_date >= cutoff}
            dates == {r.trade_date : r \in rows}
        IN  IF dates = {} THEN <<>>
            ELSE LET first == CHOOSE d \in dates : \A e \in dates : d <= e
                     last == CHOOSE d \in dates : \A e \in dates : e <= d
                     ordered == SelectSeq([i \in 1..(last - first + 1) |-> first + i - 1],
                                          LAMBDA d : d \in dates)
                 IN  [i \in 1..Len(ordered) |->
                         CHOOSE r \in rows : r.trade_date = ordered[i]]]

\* the days the dashboard was started before today
EarlierLoads == {Today - 40, Today - 15, Today - 4, Today - 1}

\* the days on which no bhavcopy can be downloaded
Outages == {{}, (Today - 30)..(Today - 25), (Today - 2)..Today}

\* the first day of the window of the earliest load
FirstDay == Today - 40 - (LOOKBACK_MONTHS * 30 + 15)

\* the rows the exchange serves: every listed symbol on every trading day, none
\* on the days of `outage`; symbol s is listed from day listed[s] on
Bhavcopies(listed, outage) ==
    [d \in FirstDay..Today |->
        IF d \in outage \/ ~is_trading_day(d) THEN {}
        ELSE {DatedBar(s, d, Bar(102 + (d % 11), 98 + (d % 11), 100 + (d % 11), 10 + (d % 3), 5, 50)) :
                s \in {x \in Symbols : listed[x] <= d}}]

\* The cache was filled on an earlier day and holds what that load left; the
\* dashboard is started today, with or without a load that succeeds, and reads
\* the table.
InitWindow ==
    /\ \E earlier \in EarlierLoads, hour \in {10, 17}, reload \in BOOLEAN,
          ipo \in {FirstDay, Today - 100, Today - 10}, outage \in Outages :
            LET bhavcopy == Bhavcopies([s \in Symbols |->
                                          IF s = SymbolOrder[1] THEN FirstDay ELSE ipo],
                                       outage)
                cached == load_all_data({}, earlier, hour, bhavcopy)
                db == IF reload THEN load_all_data(cached, Today, hour, bhavcopy)
                      ELSE cached
            IN  ohlcv = get_ohlcv_df(db, Today)
    /\ promoter = <<>>
    /\ call = NoCall
    /\ out = <<>>

NextWindow ==
    \/ CallDeathCross
    \/ CallBelowAllMAs
    \/ CallMarketBreadth
    \/ Discard

SpecWindow == InitWindow /\ [][NextWindow]_vars

----------------------------------------------------------------------------
(* Claims *)

\* the largest high of a group of bars
Highest(group) ==
    CHOOSE h \in {group[i].high : i \in 1..Len(group)} :
        \A i \in 1..Len(group) : group[i].high <= h

LastClose(group) == group[Len(group)].close

RowsOf(s) == {i \in 1..Len(out) : out[i].Symbol = s}

\* C1: screen_big_drops returns a symbol that has at least 20 bars and a positive
\* maximum high exactly when (max high - last close) / max high * 100 is at least
\* threshold_pct; its Drop % is that value rounded to one decimal (it differs from
\* the value by at most 0.05).  A symbol with maximum high 100 and last close 70 is
\* returned with Drop % = 30.0 at threshold 20 and not returned at threshold 35.
C1_BigDropsIffAtLeastThreshold ==
    call.fn = "screen_big_drops" =>
        \A s \in Symbols :
            LET h == Highest(ohlcv[s])
                c == LastClose(ohlcv[s])
                t == call.args[1]
            IN  (Len(ohlcv[s]) >= 20 /\ h > 0) =>
                    /\ (RowsOf(s) # {}) <=> ((h - c) * 100 >= t * h)
                    /\ \A i \in RowsOf(s) :
                            2 * Abs(1000 * (h - c) - out[i].DropPct * h) <= h
                    /\ (h = 100 /\ c = 70 /\ t = 20) =>
                            \E i \in RowsOf(s) : out[i].DropPct = 300
                    /\ (h = 100 /\ c = 70 /\ t = 35) => RowsOf(s) = {}

\* C1 witness: at threshold 20 a symbol with high 100 and close 70 is returned with
\* Drop % 30.0 while the other symbol, below the threshold, is not
C1_Witness ==
    /\ call.fn = "screen_big_drops"
    /\ call.args[1] = 20
    /\ \E s \in Symbols :
          /\ Len(ohlcv[s]) >= 20
          /\ Highest(ohlcv[s]) = 100
          /\ LastClose(ohlcv[s]) = 70
          /\ \E i \in RowsOf(s) : out[i].DropPct = 300
    /\ Len(out) = 1

\* the screens that scan the OHLCV table
OhlcvScreens ==
    {"screen_big_drops", "screen_range_bound", "screen_volume_spikes",
     "screen_momentum_leaders", "screen_delivery_breakouts", "screen_obv_divergence",
     "screen_death_cross", "screen_falling_delivery", "screen_below_all_mas"}

\* the minimum history the screen called asks of a symbol
MinHistory ==
    CASE call.fn = "screen_big_drops" -> 20
      [] call.fn = "screen_range_bound" -> call.args[2] + 5
      [] call.fn = "screen_volume_spikes" -> 30
      [] call.fn = "screen_momentum_leaders" -> 60
      [] call.fn = "screen_delivery_breakouts" -> 25
      [] call.fn = "screen_obv_divergence" -> call.args[1] + 5
      [] call.fn = "screen_death_cross" -> 210
      [] call.fn = "screen_falling_delivery" -> call.args[1] + 5
      [] call.fn = "screen_below_all_mas" -> 200

\* what the screen called returns on the table `data`
ScreenOn(data) ==
    CASE call.fn = "screen_big_drops" -> screen_big_drops(data, call.args[1])
      [] call.fn = "screen_range_bound" ->
            screen_range_bound(data, call.args[1], call.args[2])
      [] call.fn = "screen_volume_spikes" ->
            screen_volume_spikes(data, call.args[1], call.args[2])
      [] call.fn = "screen_momentum_leaders" -> screen_momentum_leaders(data)
      [] call.fn = "screen_delivery_breakouts" ->
            screen_delivery_breakouts(data, call.args[1])
      [] call.fn = "screen_obv_divergence" -> screen_obv_divergence(data, call.args[1])
      [] call.fn = "screen_death_cross" -> screen_death_cross(data, call.args[1])
      [] call.fn = "screen_falling_delivery" ->
            screen_falling_delivery(data, call.args[1])
      [] call.fn = "screen_below_all_mas" -> screen_below_all_mas(data)

\* the quarters the promoter table holds for a symbol
QuartersOf(s) == {i \in 1..Len(promoter) : promoter[i].symbol = s}

\* the promoter table without the records of a symbol
WithoutSymbol(s) ==
    SelectRows(promoter, [i \in 1..Len(promoter) |-> promoter[i].symbol # s])

\* C2: in every screen a symbol with fewer bars than the screen's minimum history
\* (Big Drops 20, Range-Bound min_days + 5, Volume Spikes 30, Momentum Leaders 60,
\* Delivery Breakouts 25, OBV Divergence lookback + 5, Death Cross 210, Falling
\* Delivery lookback + 5, Below All MAs 200, Promoter Trend 2 quarters) yields no
\* row, and the scan goes on: the rows returned are those the screen returns on
\* the table without that symbol.
C2_ShortHistorySkipped ==
    /\ call.fn \in OhlcvScreens =>
          \A s \in Symbols :
              Len(ohlcv[s]) < MinHistory =>
                  /\ RowsOf(s) = {}
                  /\ out = ScreenOn([ohlcv EXCEPT ![s] = <<>>])
    /\ call.fn = "screen_promoter_holdings" =>
          \A s \in Symbols :
              Cardinality(QuartersOf(s)) < 2 =>
                  /\ RowsOf(s) = {}
                  /\ out = screen_promoter_holdings(WithoutSymbol(s))

\* C2 witness: the first symbol scanned is one bar short of Big Drops' minimum and
\* is skipped, and the scan has gone on to return the next symbol
C2_Witness ==
    /\ call.fn = "screen_big_drops"
    /\ Len(ohlcv[SymbolOrder[1]]) = 19
    /\ Highest(ohlcv[SymbolOrder[1]]) = 100
    /\ LastClose(ohlcv[SymbolOrder[1]]) = 70
    /\ SymbolsOf(out) = {SymbolOrder[2]}

\* C3: the output of every screen (Big Drops, Range-Bound, Volume Spikes, Momentum
\* Leaders, Delivery Breakouts, OBV Divergence, Death Cross, Falling Delivery,
\* Below All MAs, Promoter Trend, High Pledge) holds each Symbol at most once.
C3_SymbolUnique ==
    \A i, j \in 1..Len(out) : out[i].Symbol = out[j].Symbol => i = j

\* the last w closes of a symbol
LastCloses(s, w) ==
    {ohlcv[s][i].close : i \in (Len(ohlcv[s]) - w + 1)..Len(ohlcv[s])}

\* the last w closes satisfy (max - min) / midpoint x 100 <= range_pct
InRange(s, w, range_pct) ==
    \E hi \in LastCloses(s, w), lo \in LastCloses(s, w) :
        /\ \A c \in LastCloses(s, w) : lo <= c /\ c <= hi
        /\ hi + lo > 0
        /\ 200 * (hi - lo) <= range_pct * (hi + lo)

\* the window sizes of a symbol that satisfy the width constraint
WindowsInRange(s, range_pct, min_days) ==
    {w \in min_days..Min2(60, Len(ohlcv[s])) : InRange(s, w, range_pct)}

\* C3 witness: Range-Bound returns both symbols, once each, though more than one
\* window size of each satisfies the width constraint
C3_Witness ==
    /\ call.fn = "screen_range_bound"
    /\ Len(out) = 2
    /\ \A s \in Symbols :
          /\ RowsOf(s) # {}
          /\ Cardinality(WindowsInRange(s, call.args[1], call.args[2])) > 1

\* a series flat within +/-2% (of 100) over its final 15 bars and volatile before
FlatFinal15(s) ==
    /\ Len(ohlcv[s]) > 15
    /\ \A c \in LastCloses(s, 15) : 98 <= c /\ c <= 102
    /\ \A i \in 1..(Len(ohlcv[s]) - 15) : ohlcv[s][i].close <= 50 \/ ohlcv[s][i].close >= 150

\* C4: screen_range_bound includes a symbol with at least min_days + 5 bars exactly
\* when some window size w, min_days <= w <= min(60, history length), has its last
\* w closes within range_pct, and reports as Days in Range the largest such w.  A
\* series flat within +/-2% over its final 15 bars and volatile before them is
\* reported with Days in Range = 15 at range_pct = 5 and min_days = 10.
C4_DaysInRangeLargestWindow ==
    call.fn = "screen_range_bound" =>
        \A s \in Symbols :
            LET range_pct == call.args[1]
                min_days == call.args[2]
                W == WindowsInRange(s, range_pct, min_days)
            IN  Len(ohlcv[s]) >= min_days + 5 =>
                    /\ (RowsOf(s) # {}) <=> (W # {})
                    /\ \A i \in RowsOf(s) :
                          /\ out[i].DaysInRange \in W
                          /\ \A w \in W : w <= out[i].DaysInRange
                    /\ (FlatFinal15(s) /\ range_pct = 5 /\ min_days = 10) =>
                          \E i \in RowsOf(s) : out[i].DaysInRange = 15

\* C4 witness: a series flat over its final 15 bars and volatile before is returned
\* with Days in Range 15 though shorter windows satisfy the constraint too
C4_Witness ==
    /\ call.fn = "screen_range_bound"
    /\ call.args = <<5, 10>>
    /\ \E s \in Symbols :
          /\ FlatFinal15(s)
          /\ Len(ohlcv[s]) >= 15
          /\ {10, 15} \subseteq WindowsInRange(s, 5, 10)
          /\ \E i \in RowsOf(s) : out[i].DaysInRange = 15

(* The band-crossing rule of Supertrend.  The raw bands are the midpoint of the
   day +/- multiplier x ATR.  On the day ATR is seeded (position `period`) the
   final bands are the raw bands and the state is BUY; after it the final upper
   band takes the raw band when that is lower or when the previous close was
   above the previous final upper band, and otherwise keeps its value (the final
   lower band likewise, upwards); the state flips from SELL to BUY on a close
   above the final upper band, from BUY to SELL on a close below the final lower
   band, and is kept otherwise.  Bands are in the unit of InBandUnit. *)
RuleNext(high, low, close, period, multiplier, p) ==
    LET i  == p.i + 1
        e  == IF i = 1 THEN TrueRange(high, low, close)[1] * Scale
              ELSE EwmStep(p.ewm, TrueRange(high, low, close)[i], period)
        ub == (high[i] + low[i]) * Scale + 2 * multiplier * e
        lb == (high[i] + low[i]) * Scale - 2 * multiplier * e
        c  == 2 * Scale * close[i]
    IN  IF i < period
        THEN [i |-> i, ewm |-> e, fu |-> NaN, fl |-> NaN, state |-> "NONE"]
        ELSE IF i = period
        THEN [i |-> i, ewm |-> e, fu |-> ub, fl |-> lb, state |-> "BUY"]
        ELSE LET pc == 2 * Scale * close[i - 1]
                 fu == IF ub < p.fu \/ pc > p.fu THEN ub ELSE p.fu
                 fl == IF lb > p.fl \/ pc < p.fl THEN lb ELSE p.fl
             IN  [i |-> i, ewm |-> e, fu |-> fu, fl |-> fl,
                  state |-> IF p.state = "SELL" /\ c > fu THEN "BUY"
                            ELSE IF p.state = "BUY" /\ c < fl THEN "SELL"
                            ELSE p.state]

RECURSIVE RuleAdvance(_, _, _, _, _, _, _)
RuleAdvance(high, low, close, period, multiplier, p, i) ==
    IF p.i >= i THEN p
    ELSE IF p.i + 1 = i THEN RuleNext(high, low, close, period, multiplier, p)
    ELSE RuleAdvance(high, low, close, period, multiplier,
             RuleAdvance(high, low, close, period, multiplier, p, (p.i + i) \div 2), i)

\* the rule's bands and state at position i
RuleAt(high, low, close, period, multiplier, i) ==
    RuleAdvance(high, low, close, period, multiplier,
                [i |-> 0, ewm |-> 0, fu |-> NaN, fl |-> NaN, state |-> "NONE"], i)

\* the sum of the last n closes of a symbol
LastSum(s, n) == SumRange(Col(ohlcv[s], "close"), Len(ohlcv[s]) - n + 1, Len(ohlcv[s]))

\* the conditions of Momentum Leaders at the last bar of a symbol
MomentumConditions(s) ==
    LET group == ohlcv[s]
        n == Len(group)
        c == LastClose(group)
        close == Col(group, "close")
    IN  /\ (Highest(group) - c) * 100 <= 10 * Highest(group)
        /\ n >= 50 /\ 50 * c > LastSum(s, 50)
        /\ n >= 200 /\ 200 * c > LastSum(s, 200)
        /\ ~IsNaN(RsiAt(close, 14, n))
        /\ ~RsiLt(close, 14, n, 55)
        /\ ~RsiGt(close, 14, n, 75)
        /\ RuleAt(Col(group, "high"), Col(group, "low"), close, 10, 3, n).state = "BUY"

\* C5: screen_momentum_leaders returns a symbol with at least 60 bars exactly when,
\* at its last bar, the close is within 10% of the maximum high, above the 50-bar
\* and the 200-bar SMA, RSI(14) is between 55 and 75, and the Supertrend(10, 3.0)
\* state given by the band-crossing rule is BUY.
C5_MomentumIffConditions ==
    call.fn = "screen_momentum_leaders" =>
        \A s \in Symbols :
            Len(ohlcv[s]) >= 60 => ((RowsOf(s) # {}) <=> MomentumConditions(s))

\* C6: in supertrend, from the day ATR is seeded on, the final bands are those the
\* ratchet rule derives from the raw bands, and after that day the state flips from
\* SELL to BUY on a close above the final upper band, from BUY to SELL on a close
\* below the final lower band, and is the previous day's state on every other day.
C6_SupertrendRatchetAndFlips ==
    call.fn = "supertrend" =>
        LET group == ohlcv[call.args[1]]
            period == call.args[2]
            multiplier == call.args[3]
            high == Col(group, "high")
            low == Col(group, "low")
            close == Col(group, "close")
        IN  \A i \in period..Len(group) :
                LET code == SupertrendPass(high, low, close, period, multiplier, i)
                    rule == RuleAt(high, low, close, period, multiplier, i)
                    c == 2 * Scale * close[i]
                IN  /\ code.fu = rule.fu
                    /\ code.fl = rule.fl
                    /\ i > period =>
                          out[i] = IF out[i - 1] = "SELL" /\ c > rule.fu THEN "BUY"
                                   ELSE IF out[i - 1] = "BUY" /\ c < rule.fl THEN "SELL"
                                   ELSE out[i - 1]

\* C7: supertrend returns one value per day; the value is neither BUY nor SELL at
\* each position before ATR is seeded (the first period - 1 days) and is BUY or
\* SELL at each position from the seed on.
C7_SupertrendUndefinedBeforeSeed ==
    call.fn = "supertrend" =>
        /\ Len(out) = Len(ohlcv[call.args[1]])
        /\ \A i \in 1..Len(out) :
              IF i < call.args[2] THEN out[i] \notin {"BUY", "SELL"}
              ELSE out[i] \in {"BUY", "SELL"}

\* SMA50 - SMA200 of a symbol at position i, times 50 * 200; NaN where the 200-bar
\* average is undefined
SmaGap(s, i) ==
    IF i < 200 THEN NaN
    ELSE 200 * SumRange(Col(ohlcv[s], "close"), i - 49, i)
            - 50 * SumRange(Col(ohlcv[s], "close"), i - 199, i)

\* the kind of the transition into position i
Crossing(s, i) ==
    LET prev == SmaGap(s, i - 1)
        curr == SmaGap(s, i)
    IN  IF IsNaN(prev) \/ IsNaN(curr) THEN "NONE"
        ELSE IF prev <= 0 /\ curr > 0 THEN "GOLDEN"
        ELSE IF prev >= 0 /\ curr < 0 THEN "DEATH"
        ELSE "NONE"

\* the positions whose transitions the lookback window holds
Window(s, lookback) ==
    (Len(ohlcv[s]) - Min2(lookback, Len(ohlcv[s]) - 1) + 1)..Len(ohlcv[s])

\* the death crossings inside the window
DeathCrossings(s, lookback) == {i \in Window(s, lookback) : Crossing(s, i) = "DEATH"}

\* the kind of the first transition of the window that qualifies, "NONE" without one
FirstCrossing(s, lookback) ==
    LET hits == {i \in Window(s, lookback) : Crossing(s, i) # "NONE"}
    IN  IF hits = {} THEN "NONE"
        ELSE Crossing(s, CHOOSE i \in hits : \A j \in hits : i <= j)

\* C8 as stated: for a symbol with at least 210 bars screen_death_cross returns
\* exactly one Death Cross row when SMA50 crosses from above to below SMA200 exactly
\* once inside the lookback window, and no row when the window holds no such crossing.
C8_DeathCrossOncePerCrossing ==
    call.fn = "screen_death_cross" =>
        \A s \in Symbols :
            Len(ohlcv[s]) >= 210 =>
                /\ Cardinality(DeathCrossings(s, call.args[1])) = 1 =>
                      Cardinality(RowsOf(s)) = 1
                /\ DeathCrossings(s, call.args[1]) = {} => RowsOf(s) = {}

\* C8 amended: for a symbol with at least 210 bars screen_death_cross returns exactly
\* one Death Cross row when the first crossing of either kind inside the lookback
\* window is a death crossing (SMA50 - SMA200 going from >= 0 to < 0), and no row
\* otherwise: when the window holds no death crossing, or a golden crossing first.
C8_DeathCrossWhenFirstCrossing ==
    call.fn = "screen_death_cross" =>
        \A s \in Symbols :
            Len(ohlcv[s]) >= 210 =>
                /\ FirstCrossing(s, call.args[1]) = "DEATH" =>
                      /\ Cardinality(RowsOf(s)) = 1
                      /\ \A i \in RowsOf(s) : out[i].Flag = "Death Cross"
                /\ FirstCrossing(s, call.args[1]) # "DEATH" => RowsOf(s) = {}
                /\ DeathCrossings(s, call.args[1]) = {} => RowsOf(s) = {}

\* C8 witness: the window holds one death crossing and nothing before it, and the
\* symbol is the one row returned
C8_Witness ==
    /\ call.fn = "screen_death_cross"
    /\ \E s \in Symbols :
          /\ Len(ohlcv[s]) >= 210
          /\ Cardinality(DeathCrossings(s, call.args[1])) = 1
          /\ FirstCrossing(s, call.args[1]) = "DEATH"
          /\ SymbolsOf(out) = {s}
    /\ Len(out) = 1

\* C9: golden_death_cross examines the transitions of SMA50 - SMA200 into the last
\* `lookback` positions in chronological order and returns the kind of the first
\* that qualifies (GOLDEN from <= 0 to > 0, DEATH from >= 0 to < 0), None when none
\* qualifies or an average is undefined at the last bar; a later crossing inside
\* the window does not change the result.
C9_FirstCrossingReturned ==
    call.fn = "golden_death_cross" =>
        LET s == call.args[1]
            lookback == call.args[2]
        IN  /\ Len(out) = 1
            /\ out[1] = IF Len(ohlcv[s]) < 200 THEN "NONE" ELSE FirstCrossing(s, lookback)

\* C9 witness: a golden crossing is returned though a death crossing follows it
\* inside the window
C9_Witness ==
    /\ call.fn = "golden_death_cross"
    /\ out = <<"GOLDEN">>
    /\ DeathCrossings(call.args[1], call.args[2]) # {}

\* the volumes of a symbol, a missing volume counting as 0
VolumeOf(s) ==
    [i \in 1..Len(ohlcv[s]) |-> IF IsNaN(ohlcv[s][i].volume) THEN 0 ELSE ohlcv[s][i].volume]

\* the mean volume of the bars before the last d is positive, and each of the
\* last d volumes is positive and at least that mean x (1 + t / 100)
SpikeOver(s, t, d) ==
    LET n == Len(ohlcv[s])
        before == SumRange(VolumeOf(s), 1, n - d)
    IN  /\ before > 0
        /\ \A i \in (n - d + 1)..n :
              /\ VolumeOf(s)[i] > 0
              /\ VolumeOf(s)[i] * (n - d) * 100 >= before * (100 + t)

\* C10: screen_volume_spikes returns a symbol with at least 30 bars exactly when
\* the mean volume of the bars before the last consecutive_days bars is positive
\* and each of the last consecutive_days volumes is positive and at least that
\* mean x (1 + vol_threshold_pct / 100), missing volumes counting as 0.
C10_VolumeSpikesIffAllAbove ==
    call.fn = "screen_volume_spikes" =>
        \A s \in Symbols :
            Len(ohlcv[s]) >= 30 =>
                ((RowsOf(s) # {}) <=> SpikeOver(s, call.args[1], call.args[2]))

\* C10 witness: over two days a symbol whose earlier volumes include a missing one
\* is returned at a level it reaches only because that volume counts as 0, while
\* the other symbol, with one of its two days below the level, is not
C10_Witness ==
    /\ call.fn = "screen_volume_spikes"
    /\ call.args = <<200, 2>>
    /\ \E s \in Symbols :
          /\ Len(ohlcv[s]) >= 30
          /\ \E i \in 1..(Len(ohlcv[s]) - 2) : IsNaN(ohlcv[s][i].volume)
          /\ \E i \in (Len(ohlcv[s]) - 1)..Len(ohlcv[s]) : ohlcv[s][i].volume = 29
          /\ SymbolsOf(out) = {s}
    /\ \E s \in Symbols :
          /\ Len(ohlcv[s]) >= 30
          /\ ohlcv[s][Len(ohlcv[s])].volume = 30
          /\ RowsOf(s) = {}

\* the symbol meets the condition of Big Drops at threshold t (C1)
InBigDrops(s, t) ==
    /\ Len(ohlcv[s]) >= 20
    /\ Highest(ohlcv[s]) > 0
    /\ (Highest(ohlcv[s]) - LastClose(ohlcv[s])) * 100 >= t * Highest(ohlcv[s])

\* the symbol meets the condition of Volume Spikes at threshold t over d days (C10)
InVolumeSpikes(s, t, d) == Len(ohlcv[s]) >= 30 /\ SpikeOver(s, t, d)

\* C11: the Price-Volume Intersection view contains exactly the symbols that occur
\* both in the screen_big_drops result and in the screen_volume_spikes result, each
\* computed on the full table at its own threshold, with exactly one merged row per
\* common symbol (the Big Drops columns next to the Volume Spikes columns of that
\* symbol); when either result is empty the view contains no symbol.
C11_IntersectionOfBothScreens ==
    call.fn = "price_volume_intersection" =>
        LET drops == screen_big_drops(ohlcv, call.args[1])
            vols == screen_volume_spikes(ohlcv, call.args[2], call.args[3])
        IN  /\ SymbolsOf(out) = SymbolsOf(drops) \cap SymbolsOf(vols)
            /\ SymbolsOf(out) =
                  {s \in Symbols : /\ InBigDrops(s, call.args[1])
                                   /\ InVolumeSpikes(s, call.args[2], call.args[3])}
            /\ \A i, j \in 1..Len(out) : out[i].Symbol = out[j].Symbol => i = j
            /\ \A i \in 1..Len(out) :
                  /\ \E k \in 1..Len(drops) :
                        /\ drops[k].Symbol = out[i].Symbol
                        /\ drops[k].DropPct = out[i].DropPct
                        /\ drops[k].RSI = out[i].RSI
                  /\ \E k \in 1..Len(vols) :
                        /\ vols[k].Symbol = out[i].Symbol
                        /\ vols[k].VolRatio = out[i].VolRatio
                        /\ vols[k].PriceChangePct = out[i].PriceChangePct
            /\ (drops = <<>> \/ vols = <<>>) => out = <<>>

\* C11 witness: both symbols have dropped by the drop threshold, one of them alone
\* has the volume spike at the volume threshold chosen (though both have it at the
\* default threshold), and the view holds that symbol's row only
C11_Witness ==
    /\ call.fn = "price_volume_intersection"
    /\ \A s \in Symbols : InBigDrops(s, call.args[1])
    /\ \A s \in Symbols : InVolumeSpikes(s, 50, 3)
    /\ \E s \in Symbols : ~InVolumeSpikes(s, call.args[2], call.args[3])
    /\ Len(out) = 1

\* the rows of a symbol in a result table
RowsFor(rows, s) == SelectRows(rows, [i \in 1..Len(rows) |-> rows[i].Symbol = s])

\* the rows one pass of the called screen's loop yields for a symbol's bars
LoopBody(s, group) ==
    CASE call.fn = "screen_big_drops" -> BigDropsRows(s, group, call.args[1])
      [] call.fn = "screen_range_bound" ->
            RangeBoundRows(s, group, call.args[1], call.args[2])
      [] call.fn = "screen_volume_spikes" ->
            VolumeSpikesRows(s, group, call.args[1], call.args[2])
      [] call.fn = "screen_momentum_leaders" -> MomentumRows(s, group)
      [] call.fn = "screen_delivery_breakouts" ->
            DeliveryBreakoutRows(s, group, call.args[1])
      [] call.fn = "screen_obv_divergence" -> ObvDivergenceRows(s, group, call.args[1])
      [] call.fn = "screen_death_cross" -> DeathCrossRows(s, group, call.args[1])
      [] call.fn = "screen_falling_delivery" ->
            FallingDeliveryRows(s, group, call.args[1])
      [] call.fn = "screen_below_all_mas" -> BelowAllMAsRows(s, group)

\* a series that is short, degenerate or missing
Troubled(group) ==
    \/ Len(group) < 20
    \/ \A i \in 1..Len(group) : group[i].close = 0 /\ IsNaN(group[i].volume)

\* C13: in every OHLCV screen the rows of a symbol A in the output are exactly the
\* rows that A's own bars and the parameters give, whatever the bars of the other
\* symbol B are (none at all, too few, zero prices with missing volume, missing
\* delivery, or a series that is itself returned), and the scan is completed
\* whatever B's bars are.
C13_RowsDependOnOwnBarsOnly ==
    call.fn \in OhlcvScreens =>
        \A s \in Symbols : RowsFor(out, s) = LoopBody(s, ohlcv[s])

\* C13 witness: the first symbol scanned has zero prices and no volume on each of
\* its bars, and the symbol scanned after it is returned by Falling Delivery
C13_Witness ==
    /\ call.fn = "screen_falling_delivery"
    /\ Len(ohlcv[SymbolOrder[1]]) > 20
    /\ Troubled(ohlcv[SymbolOrder[1]])
    /\ SymbolsOf(out) = {SymbolOrder[2]}


\* the bars a symbol has are enough for the screen called
LongEnough(s) == Len(ohlcv[s]) > 0 /\ Len(ohlcv[s]) >= MinHistory

\* no close of the group is below the close before it: the average loss of RSI is zero
NeverFalls(group) == \A i \in 2..Len(group) : group[i].close >= group[i - 1].close

\* the volumes and delivery quantities of a group, missing values as zero
Volumes(group) == [i \in 1..Len(group) |-> FillNa0(group[i].volume)]
DeliveryQtys(group) == [i \in 1..Len(group) |-> FillNa0(group[i].delivery_qty)]

\* C14: when a symbol's data makes a denominator zero, the screen called returns no
\* row for the symbol or leaves the affected field of its row undefined: a zero
\* maximum high (Big Drops, Momentum Leaders), a zero average loss (RSI of Big Drops),
\* a zero range midpoint (Range-Bound), a zero average volume before the recent days
\* and a zero close before them (Volume Spikes), a zero average delivery and a zero
\* previous close (Delivery Breakouts), a zero starting close (OBV Divergence,
\* Falling Delivery).
C14_ZeroDenominatorSkippedOrUndefined ==
    \A s \in Symbols :
        LET group == ohlcv[s]
            n == Len(group)
            rows == RowsFor(out, s)
        IN  (call.fn \in OhlcvScreens /\ LongEnough(s)) =>
            /\ call.fn \in {"screen_big_drops", "screen_momentum_leaders"} =>
                  (Highest(group) = 0 => rows = <<>>)
            /\ call.fn = "screen_big_drops" =>
                  (NeverFalls(group) => \A i \in 1..Len(rows) : IsNaN(rows[i].RSI))
            /\ call.fn = "screen_range_bound" =>
                  \A i \in 1..Len(rows) : rows[i].Midpoint2 > 0
            /\ call.fn = "screen_volume_spikes" =>
                  /\ SeqSum(DropLast(Volumes(group), call.args[2])) = 0 => rows = <<>>
                  /\ FromEnd(Col(group, "close"), call.args[2] + 1) = 0 =>
                        \A i \in 1..Len(rows) : IsNaN(rows[i].PriceChangePct)
            /\ call.fn = "screen_delivery_breakouts" =>
                  /\ SumRange(DeliveryQtys(group), n - DeliveryWindow, n - 1) = 0 =>
                        rows = <<>>
                  /\ group[n - 1].close = 0 =>
                        \A i \in 1..Len(rows) : IsNaN(rows[i].PriceChangePct)
            /\ call.fn \in {"screen_obv_divergence", "screen_falling_delivery"} =>
                  (FromEnd(Col(group, "close"), call.args[1]) = 0 => rows = <<>>)

\* delivery data is absent at every bar of the group
NoDeliveryData(group) ==
    \A i \in 1..Len(group) : IsNaN(group[i].delivery_qty) /\ IsNaN(group[i].delivery_pct)

\* C15: a symbol whose delivery quantity and delivery share are missing at every bar
\* is never in the result of screen_delivery_breakouts nor of screen_falling_delivery,
\* whatever its prices and volumes, and both screens return the rows of the other
\* symbol; where the symbol is returned by screen_volume_spikes its delivery shares
\* are those of a delivery of zero (0.0 before and during the spike, not above average).
C15_MissingDeliveryNeverMatches ==
    \A s \in Symbols :
        NoDeliveryData(ohlcv[s]) =>
            /\ call.fn \in {"screen_delivery_breakouts", "screen_falling_delivery"} =>
                  RowsFor(out, s) = <<>>
            /\ call.fn = "screen_volume_spikes" =>
                  \A i \in 1..Len(RowsFor(out, s)) :
                      /\ RowsFor(out, s)[i].AvgDeliveryPct = 0
                      /\ RowsFor(out, s)[i].RecentDeliveryPct = 0
                      /\ RowsFor(out, s)[i].DeliveryAboveAvg = "No"

\* C15 witness: Delivery Breakouts was called on a table where one symbol has a long
\* series with a volume spike on the last day and no delivery data, and the other
\* symbol is returned
C15_Witness ==
    /\ call.fn = "screen_delivery_breakouts"
    /\ \E s \in Symbols :
          /\ Len(ohlcv[s]) >= MinBarsDelivery
          /\ NoDeliveryData(ohlcv[s])
          /\ FillNa0(ohlcv[s][Len(ohlcv[s])].volume) = 30
          /\ RowsFor(out, s) = <<>>
    /\ out # <<>>
\* the defined values of column `key` run in the given direction down the rows,
\* and the rows without a value come after them
OrderedBy(rows, key, asc) ==
    \A i, j \in 1..Len(rows) :
        i < j =>
            /\ IsNaN(rows[i][key]) => IsNaN(rows[j][key])
            /\ (~IsNaN(rows[i][key]) /\ ~IsNaN(rows[j][key])) =>
                  IF asc THEN rows[i][key] <= rows[j][key]
                  ELSE rows[i][key] >= rows[j][key]

\* the place of a symbol in the order the screens scan the symbols
ScanIndex(s) == CHOOSE k \in 1..Len(SymbolOrder) : SymbolOrder[k] = s

\* C16: the rows a screen returns are ordered by its key: Drop % descending (Big
\* Drops), BB Bandwidth ascending (Range-Bound), Vol Ratio descending (Volume Spikes),
\* Dist from High % ascending (Momentum Leaders), Delivery Ratio descending (Delivery
\* Breakouts), Price Change % ascending (OBV Divergence) and descending (Falling
\* Delivery), Below 200 DMA % descending (Below All MAs), 6M Change % descending
\* (Promoter Trend), Pledge % descending (both High Pledge screens); the rows of
\* Death Cross are in the order the symbols were scanned.
C16_RowsOrderedByKey ==
    /\ call.fn = "screen_big_drops" => OrderedBy(out, "DropPct", FALSE)
    /\ call.fn = "screen_range_bound" => OrderedBy(out, "BBBandwidth", TRUE)
    /\ call.fn = "screen_volume_spikes" => OrderedBy(out, "VolRatio", FALSE)
    /\ call.fn = "screen_momentum_leaders" => OrderedBy(out, "DistFromHighPct", TRUE)
    /\ call.fn = "screen_delivery_breakouts" => OrderedBy(out, "DeliveryRatio", FALSE)
    /\ call.fn = "screen_obv_divergence" => OrderedBy(out, "PriceChangePct", TRUE)
    /\ call.fn = "screen_falling_delivery" => OrderedBy(out, "PriceChangePct", FALSE)
    /\ call.fn = "screen_below_all_mas" => OrderedBy(out, "Below200Pct", FALSE)
    /\ call.fn = "screen_promoter_holdings" => OrderedBy(out, "Change6M", FALSE)
    /\ call.fn \in {"screen_high_pledge", "screen_high_pledge_promoter"} =>
          OrderedBy(out, "PledgePct", FALSE)
    /\ call.fn = "screen_death_cross" =>
          \A i, j \in 1..Len(out) :
              i < j => ScanIndex(out[i].Symbol) < ScanIndex(out[j].Symbol)

\* C16 witness: Big Drops returned both symbols, the one scanned second first
\* because its drop is the larger
C16_Witness ==
    /\ call.fn = "screen_big_drops"
    /\ Len(out) = 2
    /\ out[1].Symbol = SymbolOrder[2]
    /\ out[1].DropPct > out[2].DropPct
\* the delivery quantities of the 20 bars before the last bar, missing ones as zero
Before(group) ==
    [k \in 1..DeliveryWindow |-> FillNa0(group[Len(group) - 1 - DeliveryWindow + k].delivery_qty)]

ObvRise(group, lookback) ==
    LET n == Len(group)
        signed(k) == IF group[k].close > group[k - 1].close THEN FillNa0(group[k].volume)
                     ELSE IF group[k].close < group[k - 1].close
                     THEN 0 - FillNa0(group[k].volume)
                     ELSE 0
    IN  SeqSum([j \in 1..(lookback - 1) |-> signed(n - lookback + 1 + j)])

\* C18: screen_obv_divergence returns a symbol that has at least lookback + 5 bars,
\* a non-zero total volume and a positive close at position -lookback exactly when
\* the price change from that close to the last close is at most 2% and the OBV
\* change from position -lookback to the last bar, divided by (mean volume of the
\* whole series x lookback), times 100, is above 10.
C18_ObvDivergenceIffFlatAndRising ==
    call.fn = "screen_obv_divergence" =>
        \A s \in Symbols :
            LET group == ohlcv[s]
                n == Len(group)
                lookback == call.args[1]
                total == SeqSum(Volumes(group))
                start == group[n - lookback + 1].close
                last == group[n].close
            IN  (n >= lookback + LookbackSlack /\ total # 0 /\ start > 0) =>
                    ((s \in SymbolsOf(out)) <=>
                        /\ 100 * (last - start) <= 2 * start
                        /\ 100 * ObvRise(group, lookback) * n > 10 * total * lookback)

\* C18 witness: one symbol is returned, and the other is not although its price is
\* flat or down over the lookback, because its OBV has not risen enough
C18_Witness ==
    /\ call.fn = "screen_obv_divergence"
    /\ \E s \in Symbols, t \in Symbols :
          /\ SymbolsOf(out) = {s}
          /\ ObvRise(ohlcv[s], call.args[1]) > 0
          /\ t # s
          /\ Len(ohlcv[t]) >= call.args[1] + LookbackSlack
          /\ SeqSum(Volumes(ohlcv[t])) > 0
          /\ ohlcv[t][Len(ohlcv[t]) - call.args[1] + 1].close > 0
          /\ ohlcv[t][Len(ohlcv[t])].close <= ohlcv[t][Len(ohlcv[t]) - call.args[1] + 1].close
\* the sum of the last `period` closes of a group: period times its moving average
\* at the last bar
LastCloseSum(group, period) == SeqSum(Tail_(Col(group, "close"), period))

\* C19: screen_below_all_mas returns a symbol that has at least 200 bars exactly when
\* its last close is strictly below its 20-, 50-, 100- and 200-bar simple moving
\* averages at the last bar; the row's Below 200 DMA % is (SMA200 - close) / SMA200 x
\* 100 rounded to one decimal (held in tenths, within half a tenth of the value).
C19_BelowAllMAsIffBelowEach ==
    call.fn = "screen_below_all_mas" =>
        \A s \in Symbols :
            LET group == ohlcv[s]
                last == group[Len(group)].close
                s200 == LastCloseSum(group, 200)
                rows == RowsFor(out, s)
            IN  Len(group) >= 200 =>
                    /\ (rows # <<>>) <=>
                          \A period \in {20, 50, 100, 200} :
                              last * period < LastCloseSum(group, period)
                    /\ \A i \in 1..Len(rows) :
                          2 * Abs(1000 * (s200 - 200 * last) - rows[i].Below200Pct * s200)
                              <= s200

\* C19 witness: one symbol is returned with a Below 200 DMA % above zero, and the
\* other is not although its last close is below its 200-bar average, because it
\* is not below its 20-bar average
C19_Witness ==
    /\ call.fn = "screen_below_all_mas"
    /\ \E s \in Symbols, t \in Symbols :
          /\ SymbolsOf(out) = {s}
          /\ out[1].Below200Pct > 0
          /\ t # s
          /\ Len(ohlcv[t]) >= 200
          /\ LastClose(ohlcv[t]) * 200 < LastCloseSum(ohlcv[t], 200)
          /\ LastClose(ohlcv[t]) * 20 >= LastCloseSum(ohlcv[t], 20)

\* the records of a symbol that carry a promoter holding value
ValidQuarters(s) == {i \in QuartersOf(s) : ~IsNaN(promoter[i].promoter_holding_pct)}

\* the record of the latest and of the oldest quarter among a set of records
LatestRecord(recs) == CHOOSE i \in recs : \A j \in recs : promoter[j].quarter <= promoter[i].quarter
OldestRecord(recs) == CHOOSE i \in recs : \A j \in recs : promoter[j].quarter >= promoter[i].quarter

\* C20: screen_promoter_holdings returns exactly one row for every symbol with at
\* least two quarters that carry a promoter holding value, whatever the direction of
\* its changes, and no row for any other symbol; the row's 6M Change % is the holding
\* of the latest of those quarters minus the holding of the oldest, wherever the
\* records stand in the table.
C20_PromoterRowPerSymbolWithTwoQuarters ==
    call.fn = "screen_promoter_holdings" =>
        \A s \in Symbols :
            LET rows == RowsFor(out, s)
                valid == ValidQuarters(s)
            IN  IF Cardinality(valid) >= 2
                THEN /\ Len(rows) = 1
                     /\ rows[1].Change6M =
                           promoter[LatestRecord(valid)].promoter_holding_pct
                             - promoter[OldestRecord(valid)].promoter_holding_pct
                ELSE rows = <<>>

\* C20 witness: a symbol with two records, one of them without a holding value, has
\* no row, and the other symbol, whose latest quarter stands first in the table and
\* whose holding fell, has one
C20_Witness ==
    /\ call.fn = "screen_promoter_holdings"
    /\ \E s \in Symbols, t \in Symbols :
          /\ Cardinality(QuartersOf(s)) >= 2
          /\ Cardinality(ValidQuarters(s)) < 2
          /\ SymbolsOf(out) = {t}
          /\ LatestRecord(ValidQuarters(t)) < OldestRecord(ValidQuarters(t))
          /\ out[1].Change6M < 0
\* the symbol an indicator was called on, and its closes
Called == call.args[1]
ClosesCalled == Col(ohlcv[Called], "close")

\* C21: every value rsi returns is undefined or within 0..100 (0..1000 in tenths),
\* and it is undefined, not 100, at every position up to which no close was below
\* the close before it, where the smoothed average loss is zero.
C21_RsiBoundedAndUndefinedWithoutLoss ==
    call.fn = "rsi" =>
        /\ Len(out) = Len(ClosesCalled)
        /\ \A i \in 1..Len(out) :
              /\ IsNaN(out[i]) \/ (0 <= out[i] /\ out[i] <= 1000)
              /\ (\A j \in 2..i : ClosesCalled[j] >= ClosesCalled[j - 1]) => IsNaN(out[i])

\* C21 witness: rsi is undefined at a position that has a full period of strictly
\* rising closes behind it, and has a value strictly between 0 and 100 at a later
\* position
C21_Witness ==
    /\ call.fn = "rsi"
    /\ \E i \in 2..Len(out) :
          /\ i >= call.args[2]
          /\ IsNaN(out[i])
          /\ \A j \in 2..i : ClosesCalled[j] > ClosesCalled[j - 1]
          /\ \E k \in (i + 1)..Len(out) : ~IsNaN(out[k]) /\ 0 < out[k] /\ out[k] < 1000
\* sign(x): 1, 0 or -1
Sign(x) == IF x > 0 THEN 1 ELSE IF x < 0 THEN 0 - 1 ELSE 0

\* C22: obv is 0 at the first position and at every later position i it is the value
\* at i - 1 plus volume[i] x sign(close[i] - close[i-1]), with sign(0) = 0; on closes
\* that are the same at every bar it is 0 at every position.
C22_ObvRecurrence ==
    call.fn = "obv" =>
        LET volume == Col(ohlcv[Called], "volume")
        IN  /\ Len(out) = Len(ClosesCalled)
            /\ out[1] = 0
            /\ \A i \in 2..Len(out) :
                  out[i] = out[i - 1]
                             + volume[i] * Sign(ClosesCalled[i] - ClosesCalled[i - 1])
            /\ (\A i \in 2..Len(out) : ClosesCalled[i] = ClosesCalled[i - 1]) =>
                  \A i \in 1..Len(out) : out[i] = 0

\* C22 witness: obv was called on closes with an unchanged day, on which it stays,
\* and a down day, on which it falls by the day's volume
C22_Witness ==
    /\ call.fn = "obv"
    /\ \E i \in 2..Len(out) : ClosesCalled[i] = ClosesCalled[i - 1] /\ out[i] = out[i - 1]
    /\ \E i \in 2..Len(out) : out[i] = out[i - 1] - ohlcv[Called][i].volume
    /\ \A i \in 1..Len(out) : ohlcv[Called][i].volume > 0
\* the periods of the four averages moving_averages returns, in its order
MAPeriods == <<20, 50, 100, 200>>

\* C23: each average sma returns has the length of its input, is undefined at the
\* first period - 1 positions and is the mean of the trailing `period` values from
\* there on: period x the value is the sum of the first `period` values at position
\* `period`, and at each later position it gains the new value and loses the one
\* that left the window.  The 200-bar average (dma_200) is among them.
C23_SmaIsTrailingMean ==
    call.fn = "moving_averages" =>
        \A k \in 1..Len(MAPeriods) :
            LET period == MAPeriods[k]
                n == Len(ClosesCalled)
            IN  /\ Len(out[k]) = n
                /\ \A i \in 1..n :
                      IF i < period THEN IsNaN(out[k][i])
                      ELSE IF i = period
                      THEN out[k][i] = SeqSum(SubSeq(ClosesCalled, 1, period))
                      ELSE out[k][i] = out[k][i - 1] + ClosesCalled[i]
                                         - ClosesCalled[i - period]

\* C23 witness: the averages of a series of more than 200 bars, where the 200-bar
\* average is undefined at position 199, defined from position 200 and moving
C23_Witness ==
    /\ call.fn = "moving_averages"
    /\ Len(ClosesCalled) > 200
    /\ IsNaN(out[4][199])
    /\ ~IsNaN(out[4][200])
    /\ out[4][Len(ClosesCalled)] # out[4][200]
\* the columns of the OHLCV table, and the columns compute_all_indicators adds
BarColumns == {"high", "low", "close", "volume", "delivery_qty", "delivery_pct"}
IndicatorColumns ==
    {"rsi", "bb_bandwidth", "atr", "supertrend", "obv", "dma_20", "dma_50", "dma_100",
     "dma_200", "cross"}

Flagged(rows) == [i \in 1..Len(rows) |-> <<rows[i].Symbol, rows[i].PledgePct>>]

\* what the two implementations of screen_high_pledge return at a threshold
RedFlagsPledge(t) == Flagged(screen_high_pledge(promoter, t))
PromoterPledge(t) == Flagged(screen_high_pledge_promoter(promoter, t))

\* the pledge of a symbol's latest quarter in hundredths, a missing one as 0
LatestPledge(s) == FillNa0(promoter[LatestRecord(QuartersOf(s))].pledge_pct)

\* the symbols a threshold flags, with their Pledge % in tenths
ShouldFlag(t) ==
    {<<s, RoundDiv(LatestPledge(s), 10)>> :
        s \in {x \in Symbols : QuartersOf(x) # {} /\ LatestPledge(x) >= 100 * t}}

\* the elements of a sequence
Range(seq) == {seq[i] : i \in 1..Len(seq)}

\* C25 as stated: for the same table and threshold the two implementations of
\* screen_high_pledge return the same symbols with the same Pledge % in the same
\* order, the symbols whose latest quarter's pledge (missing as 0) is at least the
\* threshold.
C25_SamePledgeRowsSameOrder ==
    call.fn \in {"screen_high_pledge", "screen_high_pledge_promoter"} =>
        /\ RedFlagsPledge(call.args[1]) = PromoterPledge(call.args[1])
        /\ Range(Flagged(out)) = ShouldFlag(call.args[1])

\* C25 amended: for the same table and threshold the two implementations return the
\* same symbols with the same Pledge %, each symbol once and each result in
\* descending order of Pledge %: the symbols whose latest quarter's pledge (missing
\* as 0) is at least the threshold.  Rows of equal Pledge % may stand in a different
\* order in the two results.
C25_SamePledgeRows ==
    call.fn \in {"screen_high_pledge", "screen_high_pledge_promoter"} =>
        /\ Range(RedFlagsPledge(call.args[1])) = ShouldFlag(call.args[1])
        /\ Range(PromoterPledge(call.args[1])) = ShouldFlag(call.args[1])
        /\ Len(RedFlagsPledge(call.args[1])) = Cardinality(ShouldFlag(call.args[1]))
        /\ Len(PromoterPledge(call.args[1])) = Cardinality(ShouldFlag(call.args[1]))
        /\ Flagged(out) \in {RedFlagsPledge(call.args[1]), PromoterPledge(call.args[1])}
        /\ OrderedBy(screen_high_pledge(promoter, call.args[1]), "PledgePct", FALSE)
        /\ OrderedBy(screen_high_pledge_promoter(promoter, call.args[1]), "PledgePct", FALSE)

\* C25 witness: both symbols are flagged with the same Pledge %, and the two
\* implementations return them in a different order
C25_Witness ==
    /\ call.fn = "screen_high_pledge"
    /\ Len(out) = 2
    /\ out[1].PledgePct = out[2].PledgePct
    /\ Range(RedFlagsPledge(call.args[1])) = Range(PromoterPledge(call.args[1]))
    /\ RedFlagsPledge(call.args[1]) # PromoterPledge(call.args[1])
\* the largest and the smallest of the last w closes of a symbol
HighOf(s, w) == MaxRange(Col(ohlcv[s], "close"), Len(ohlcv[s]) - w + 1, Len(ohlcv[s]))
LowOf(s, w) == MinRange(Col(ohlcv[s], "close"), Len(ohlcv[s]) - w + 1, Len(ohlcv[s]))

\* (max - min) / midpoint of the last w closes is at most that of the last v closes
WidthNoMore(s, w, v) ==
    (HighOf(s, w) - LowOf(s, w)) * (HighOf(s, v) + LowOf(s, v))
        <= (HighOf(s, v) - LowOf(s, v)) * (HighOf(s, w) + LowOf(s, w))

\* C26: in screen_range_bound, over positive closes the width (max - min) / midpoint
\* of the last w closes does not decrease as w grows; a symbol with at least
\* min_days + 5 bars is included exactly when its last min_days closes satisfy the
\* width limit, and every window size from min_days to the reported Days in Range
\* satisfies it.
C26_WidthGrowsWithWindow ==
    call.fn = "screen_range_bound" =>
        \A s \in Symbols :
            LET range_pct == call.args[1]
                min_days == call.args[2]
            IN  Len(ohlcv[s]) >= min_days + 5 =>
                    /\ \A w \in min_days..(Min2(60, Len(ohlcv[s])) - 1) :
                          (\A c \in LastCloses(s, w + 1) : c > 0) => WidthNoMore(s, w, w + 1)
                    /\ (RowsOf(s) # {}) <=> InRange(s, min_days, range_pct)
                    /\ \A i \in RowsOf(s) :
                          \A w \in min_days..out[i].DaysInRange : InRange(s, w, range_pct)

\* C26 witness: a symbol is returned with more Days in Range than min_days and fewer
\* than the largest window, whose width is strictly larger than that of min_days;
\* the other symbol has the bars and is left out
C26_Witness ==
    /\ call.fn = "screen_range_bound"
    /\ \E s \in Symbols :
          /\ \E i \in RowsOf(s) :
                /\ call.args[2] < out[i].DaysInRange
                /\ out[i].DaysInRange < Min2(60, Len(ohlcv[s]))
          /\ \A c \in LastCloses(s, Min2(60, Len(ohlcv[s]))) : c > 0
          /\ ~WidthNoMore(s, Min2(60, Len(ohlcv[s])), call.args[2])
    /\ \E s \in Symbols :
          /\ Len(ohlcv[s]) >= call.args[2] + 5
          /\ RowsOf(s) = {}
          /\ ~InRange(s, call.args[2], call.args[1])
Rises(s) ==
    {i \in ValidQuarters(s) :
        \E j \in ValidQuarters(s) :
            /\ promoter[j].quarter > promoter[i].quarter
            /\ \A k \in ValidQuarters(s) :
                  promoter[k].quarter > promoter[i].quarter =>
                      promoter[k].quarter >= promoter[j].quarter
            /\ promoter[j].promoter_holding_pct > promoter[i].promoter_holding_pct}
Falls(s) ==
    {i \in ValidQuarters(s) :
        \E j \in ValidQuarters(s) :
            /\ promoter[j].quarter > promoter[i].quarter
            /\ \A k \in ValidQuarters(s) :
                  promoter[k].quarter > promoter[i].quarter =>
                      promoter[k].quarter >= promoter[j].quarter
            /\ promoter[j].promoter_holding_pct < promoter[i].promoter_holding_pct}

\* C29: screen_promoter_holdings gives every row exactly one of five trend labels,
\* from the signs of the quarter-over-quarter changes: Steady Increase iff some
\* change is positive and none negative, Steady Decrease iff some is negative and
\* none positive, Mostly Increasing iff both signs occur and the positive ones are
\* more, Mostly Decreasing iff both occur and the negative ones are more, Mixed iff
\* they are as many, which includes no change at all.
C29_TrendLabelFromSigns ==
    call.fn = "screen_promoter_holdings" =>
        \A i \in 1..Len(out) :
            LET ups == Cardinality(Rises(out[i].Symbol))
                downs == Cardinality(Falls(out[i].Symbol))
                trend == out[i].Trend
            IN  /\ trend \in {"Steady Increase", "Steady Decrease", "Mostly Increasing",
                              "Mostly Decreasing", "Mixed"}
                /\ trend = "Steady Increase" <=> (ups > 0 /\ downs = 0)
                /\ trend = "Steady Decrease" <=> (downs > 0 /\ ups = 0)
                /\ trend = "Mostly Increasing" <=> (ups > 0 /\ downs > 0 /\ ups > downs)
                /\ trend = "Mostly Decreasing" <=> (ups > 0 /\ downs > 0 /\ downs > ups)
                /\ trend = "Mixed" <=> ups = downs

\* C29 witness: one symbol with a rise and a fall and one without any change are
\* both labelled Mixed
C29_Witness ==
    /\ call.fn = "screen_promoter_holdings"
    /\ Len(out) = 2
    /\ \A i \in 1..2 : out[i].Trend = "Mixed"
    /\ \E i \in 1..2 : Cardinality(Rises(out[i].Symbol)) = 1
    /\ \E i \in 1..2 : Rises(out[i].Symbol) \cup Falls(out[i].Symbol) = {}
\* the sum of the last d volumes of a symbol and of the volumes before them
RecentVolume(s, d) == SumRange(VolumeOf(s), Len(ohlcv[s]) - d + 1, Len(ohlcv[s]))
EarlierVolume(s, d) == SumRange(VolumeOf(s), 1, Len(ohlcv[s]) - d)

\* C30: in every row screen_volume_spikes returns, the unrounded Vol Ratio, the mean
\* of the last consecutive_days volumes over the mean of the volumes before them, is
\* at least 1 + vol_threshold_pct / 100.
C30_VolRatioAtLeastLevel ==
    call.fn = "screen_volume_spikes" =>
        \A i \in 1..Len(out) :
            LET s == out[i].Symbol
                t == call.args[1]
                d == call.args[2]
            IN  /\ EarlierVolume(s, d) > 0
                /\ RecentVolume(s, d) * (Len(ohlcv[s]) - d) * 100
                      >= EarlierVolume(s, d) * d * (100 + t)

\* C30 witness: a symbol is returned over two or three days of unequal volumes, the
\* smallest of them below twice the earlier mean, and the other symbol, with the
\* bars, is not returned
C30_Witness ==
    /\ call.fn = "screen_volume_spikes"
    /\ call.args[2] >= 2
    /\ \E i \in 1..Len(out) :
          LET s == out[i].Symbol
              n == Len(ohlcv[s])
          IN  /\ VolumeOf(s)[n] # VolumeOf(s)[n - 1]
              /\ \E j \in (n - call.args[2] + 1)..n :
                    VolumeOf(s)[j] * (n - call.args[2]) < 2 * EarlierVolume(s, call.args[2])
    /\ \E s \in Symbols : Len(ohlcv[s]) >= 30 /\ RowsOf(s) = {}
====
